---- MODULE Spec2Model ----
(***************************************************************************)
(* A model of pytype: the checker orchestrator (pytype/checker.py), the    *)
(* declaration extractor (pytype/analyzer.py), the inference engine        *)
(* (pytype/infer.py), the reporter's accumulators (pytype/reporter.py) and *)
(* the batch driver's totals (pytype/cli.py).                              *)
(*                                                                         *)
(* A source file is a path together with the syntax tree Python's ast      *)
(* module gives for it (or no tree, when the file cannot be read or does   *)
(* not parse).  Syntax trees are records with a "kind" field named after   *)
(* the ast node class; the operators below inspect them exactly where the  *)
(* code uses isinstance.                                                   *)
(***************************************************************************)
EXTENDS Integers, Sequences, FiniteSets, TLC

VARIABLES
    config,               \* Config: [strict, infer, fix], fixed at construction
    hash_seed,            \* the process's string-hash order (iteration order of a set of str)
    pc,                   \* state of the per-file state machine of check_file
    file_path,            \* the file of the current / most recent check_file call
    tree,                 \* its syntax tree, NoNode when parsing failed
    analysis,             \* analyze_ast's result for it
    errors,               \* TypeChecker.errors
    warnings,             \* TypeChecker.warnings
    function_signatures,  \* TypeInferrer._function_signatures
    variable_types,       \* TypeInferrer._variable_types
    type_map,             \* TypeInferrer._type_map
    rep_errors,           \* Reporter.errors
    rep_warnings,         \* Reporter.warnings
    info_messages,        \* Reporter.info_messages
    stderr,               \* lines printed to sys.stderr
    ret,                  \* value returned by the most recent check_file call
    total_errors,         \* cli.main: total_errors
    total_files,          \* cli.main: total_files
    n_targets,            \* cli.main: the number of files among the targets
    exit_code             \* cli.main: the value returned, -1 until it returns

checker_vars  == <<errors, warnings>>
inferrer_vars == <<function_signatures, variable_types, type_map>>
reporter_vars == <<rep_errors, rep_warnings, info_messages>>
driver_vars   == <<ret, total_errors, total_files, n_targets, exit_code>>
file_vars     == <<file_path, tree, analysis>>
vars == <<config, hash_seed, pc, file_vars, checker_vars, inferrer_vars,
          reporter_vars, stderr, driver_vars>>

-----------------------------------------------------------------------------
(* Bounds of the model.                                                    *)

\* largest number of target files of a batch run (check_file calls on one
\* TypeChecker)
MaxFiles == 2

-----------------------------------------------------------------------------
(* Python values.                                                          *)

\* Python's None where a str is expected (distinct from the type name "None")
PyNone == "<PyNone>"

\* an absent optional ast node (annotation, returns, Return.value)
NoNode == [kind |-> "NoNode"]

\* a Python dict: insertion-ordered keys, last write wins
EmptyDict == [keys |-> <<>>, vals |-> <<>>]

DictHas(d, k) == \E i \in 1..Len(d.keys) : d.keys[i] = k

DictSet(d, k, v) ==
    [keys |-> IF DictHas(d, k) THEN d.keys ELSE Append(d.keys, k),
     vals |-> (k :> v) @@ d.vals]

DictGetStr(d, k) == IF DictHas(d, k) THEN d.vals[k] ELSE PyNone

DictKeySet(d) == {d.keys[i] : i \in 1..Len(d.keys)}

DictLen(d) == Len(d.keys)

RECURSIVE Join(_, _)
\* sep.join(parts)
Join(parts, sep) ==
    IF parts = <<>> THEN ""
    ELSE IF Len(parts) = 1 THEN parts[1]
    ELSE parts[1] \o sep \o Join(Tail(parts), sep)

RECURSIVE Concat(_)
\* the concatenation of a sequence of sequences
Concat(ss) == IF ss = <<>> THEN <<>> ELSE Head(ss) \o Concat(Tail(ss))

-----------------------------------------------------------------------------
(* Syntax trees: one constructor per ast node class the code looks at.     *)

Name(id)                 == [kind |-> "Name", id |-> id]
Constant(pytype, repr)   == [kind |-> "Constant", pytype |-> pytype, repr |-> repr]
Attribute(value, attr)   == [kind |-> "Attribute", value |-> value, attr |-> attr]
Subscript(value, slice)  == [kind |-> "Subscript", value |-> value, slice |-> slice]
Literal(kind)            == [kind |-> kind]   \* "List", "Dict", "Tuple", "Set"
Call(func, args, kws, lineno) ==
    [kind |-> "Call", func |-> func, args |-> args, keywords |-> kws, lineno |-> lineno]
BinOp(left, op, right)   == [kind |-> "BinOp", left |-> left, op |-> op, right |-> right]
UnaryOp(op, operand)     == [kind |-> "UnaryOp", op |-> op, operand |-> operand]

Arg(arg, annotation)     == [kind |-> "arg", arg |-> arg, annotation |-> annotation]
FunctionDef(name, args, returns, body, lineno) ==
    [kind |-> "FunctionDef", name |-> name, args |-> args, returns |-> returns,
     body |-> body, lineno |-> lineno]
Assign(target, value, lineno) ==
    [kind |-> "Assign", targets |-> <<target>>, value |-> value, lineno |-> lineno]
AnnAssign(target, annotation, value, lineno) ==
    [kind |-> "AnnAssign", target |-> target, annotation |-> annotation,
     value |-> value, lineno |-> lineno]
Return(value)            == [kind |-> "Return", value |-> value]
Expr(value)              == [kind |-> "Expr", value |-> value]
Pass                     == [kind |-> "Pass"]
Module(body)             == [kind |-> "Module", body |-> body]

IntLit(repr) == Constant("int", repr)
StrLit(repr) == Constant("str", repr)

\* the optional node n, as the sequence of the nodes present
Opt(n) == IF n = NoNode THEN <<>> ELSE <<n>>

\* ast.iter_child_nodes: the child nodes in field order.  The arguments / arg
\* nodes of a FunctionDef are left out together with their annotation
\* expressions, and a keyword of a Call stands for its value expression: no
\* traversal of the code matches the nodes left out.
Children(n) ==
    CASE n.kind = "Module"      -> n.body
      [] n.kind = "FunctionDef" -> n.body \o Opt(n.returns)
      [] n.kind = "Assign"      -> n.targets \o <<n.value>>
      [] n.kind = "AnnAssign"   -> <<n.target, n.annotation>> \o Opt(n.value)
      [] n.kind = "Return"      -> Opt(n.value)
      [] n.kind = "Expr"        -> <<n.value>>
      [] n.kind = "Call"        -> <<n.func>> \o n.args \o n.keywords
      [] n.kind = "BinOp"       -> <<n.left, n.right>>
      [] n.kind = "UnaryOp"     -> <<n.operand>>
      [] n.kind = "Attribute"   -> <<n.value>>
      [] n.kind = "Subscript"   -> <<n.value, n.slice>>
      [] OTHER                  -> <<>>

RECURSIVE WalkLevels(_)
\* the nodes at the depth of `level` and below, one depth after the other
WalkLevels(level) ==
    IF level = <<>> THEN <<>>
    ELSE level \o WalkLevels(Concat([i \in 1..Len(level) |-> Children(level[i])]))

\* ast.walk(node): every node of the tree, breadth first (a queue of the
\* nodes seen, each followed later by its children)
Walk(node) == WalkLevels(<<node>>)

RECURSIVE Visit(_)
RECURSIVE VisitAll(_)
\* ast.NodeVisitor.visit / generic_visit: every node, depth first, parent first
Visit(node) == <<node>> \o VisitAll(Children(node))
VisitAll(nodes) ==
    IF nodes = <<>> THEN <<>> ELSE Visit(Head(nodes)) \o VisitAll(Tail(nodes))

\* the nodes of class k among a traversal
OfKind(nodes, k) == SelectSeq(nodes, LAMBDA n : n.kind = k)

\* the nodes of a class in ks among a traversal
OfKinds(nodes, ks) == SelectSeq(nodes, LAMBDA n : n.kind \in ks)

\* [f(x) for x in s]
Map(s, f(_)) == [i \in 1..Len(s) |-> f(s[i])]

-----------------------------------------------------------------------------
(* analyzer.py: ASTAnalyzer and _ASTWalker.                                *)

RECURSIVE analyzer_get_type_name(_)
\* _get_type_name without its Attribute and Subscript branches
analyzer_get_type_name_flat(node) ==
    CASE node.kind = "NoNode"    -> PyNone
      [] node.kind = "Name"      -> node.id
      [] node.kind = "Constant"  -> node.repr
      [] OTHER                   -> "<ast." \o node.kind \o " object>"

\* ASTAnalyzer._get_type_name
analyzer_get_type_name(node) ==
    CASE node.kind = "NoNode"    -> PyNone
      [] node.kind = "Name"      -> node.id
      [] node.kind = "Attribute" -> analyzer_get_type_name(node.value) \o "." \o node.attr
      [] node.kind = "Subscript" ->
            analyzer_get_type_name(node.value) \o "[" \o analyzer_get_type_name(node.slice) \o "]"
      [] node.kind = "Constant"  -> node.repr
      [] OTHER                   -> "<ast." \o node.kind \o " object>"

\* ASTAnalyzer.parse_file: the tree, or NoNode (Python's None) when the file
\* cannot be opened or ast.parse raises SyntaxError
parse_file(file) ==
    IF file.readable /\ file.syntax_ok THEN file.tree ELSE NoNode

\* the line parse_file prints to sys.stderr when it fails
parse_file_stderr(file) ==
    IF ~file.readable THEN <<"Error parsing " \o file.path>>
    ELSE IF ~file.syntax_ok THEN <<"Syntax error in " \o file.path>>
    ELSE <<>>

\* ASTAnalyzer._extract_function_args
extract_function_args(func) ==
    Map(func.args, LAMBDA a :
        [name |-> a.arg,
         has_annotation |-> a.annotation # NoNode,
         annotation |-> IF a.annotation # NoNode
                        THEN analyzer_get_type_name(a.annotation) ELSE PyNone])

\* ASTAnalyzer._extract_return_type
extract_return_type(func) ==
    IF func.returns # NoNode THEN analyzer_get_type_name(func.returns) ELSE PyNone

\* ASTAnalyzer.get_function_signatures
get_function_signatures(t) ==
    Map(OfKind(Walk(t), "FunctionDef"), LAMBDA node :
        [name |-> node.name,
         lineno |-> node.lineno,
         args |-> extract_function_args(node),
         returns |-> extract_return_type(node),
         has_return_annotation |-> node.returns # NoNode])

\* ASTAnalyzer._infer_value_type: the tests of a constant's value in the
\* order of the code (a bool is an int, so the int test answers for it)
infer_value_type(node) ==
    CASE node.kind = "Constant" ->
            (IF node.pytype = "str" THEN "str"
             ELSE IF node.pytype \in {"int", "bool"} THEN "int"
             ELSE IF node.pytype = "float" THEN "float"
             ELSE IF node.pytype = "bool" THEN "bool"
             ELSE IF node.pytype = "NoneType" THEN "None"
             ELSE PyNone)
      [] node.kind = "List"  -> "List"
      [] node.kind = "Dict"  -> "Dict"
      [] node.kind = "Tuple" -> "Tuple"
      [] node.kind = "Set"   -> "Set"
      [] node.kind = "Call"  -> analyzer_get_type_name(node.func)
      [] OTHER               -> PyNone

\* ASTAnalyzer.get_variable_assignments (single targets; a Name node has no
\* annotation attribute)
get_variable_assignments(t) ==
    Map(SelectSeq(OfKind(Walk(t), "Assign"), LAMBDA node : node.targets[1].kind = "Name"),
        LAMBDA node :
            [name |-> node.targets[1].id,
             lineno |-> node.lineno,
             has_annotation |-> FALSE,
             value_type |-> infer_value_type(node.value)])

\* visit_FunctionDef recording the return-type site only
visit_FunctionDef_returns_only(cfg, node) ==
    IF cfg.strict /\ node.returns = NoNode
    THEN <<[item |-> "function '" \o node.name \o "'", line |-> node.lineno]>>
    ELSE <<>>

\* visit_FunctionDef recording the sites in every mode
visit_FunctionDef_any_mode(cfg, node) ==
    (IF node.returns = NoNode
     THEN <<[item |-> "function '" \o node.name \o "'", line |-> node.lineno]>>
     ELSE <<>>)
    \o Concat(Map(node.args, LAMBDA a :
        IF a.annotation = NoNode
        THEN <<[item |-> "parameter '" \o a.arg \o "' in function '"
                          \o node.name \o "'",
                line |-> node.lineno]>>
        ELSE <<>>))

\* _ASTWalker.visit_FunctionDef: the missing-annotation sites of one function
visit_FunctionDef(cfg, node) ==
    (IF cfg.strict /\ node.returns = NoNode
     THEN <<[item |-> "function '" \o node.name \o "'", line |-> node.lineno]>>
     ELSE <<>>)
    \o Concat(Map(node.args, LAMBDA a :
        IF cfg.strict /\ a.annotation = NoNode
        THEN <<[item |-> "parameter '" \o a.arg \o "' in function '"
                          \o node.name \o "'",
                line |-> node.lineno]>>
        ELSE <<>>))

\* ASTAnalyzer.analyze_ast: the walker's missing_annotations list and the
\* names it keys its function / variable / annotation tables by
analyze_ast(cfg, t) ==
    LET defs == OfKind(Visit(t), "FunctionDef") IN
    [functions |-> {defs[i].name : i \in 1..Len(defs)},
     missing_annotations |->
        Concat(Map(defs, LAMBDA node : visit_FunctionDef(cfg, node)))]

NoAnalysis == [functions |-> {}, missing_annotations |-> <<>>]

-----------------------------------------------------------------------------
(* infer.py: TypeInferrer.  A pass is a fold over the nodes of ast.walk    *)
(* that its isinstance tests select, in walk order; the engine's           *)
(* maps are threaded through as st = [fs |-> function_signatures,          *)
(* vt |-> variable_types].  An inferred signature is a dict with the       *)
(* optional keys 'args' and 'returns': [keys, args, returns].              *)

\* bool(s) of an Optional[str]
Truthy(s) == s # PyNone /\ s # ""

Signature(ks, args, returns) == [keys |-> ks, args |-> args, returns |-> returns]

\* signature.get('returns')
SigReturns(sig) == IF "returns" \in sig.keys THEN sig.returns ELSE PyNone

RECURSIVE Permuted(_, _)
\* the order in which a set of str built from `items` is iterated under the
\* process's hash seed k: each seed gives one permutation, every permutation
\* has a seed
Permuted(items, k) ==
    IF items = <<>> THEN <<>>
    ELSE LET n == Len(items)
             i == (k % n) + 1
         IN  <<items[i]>> \o
             Permuted(SubSeq(items, 1, i - 1) \o SubSeq(items, i + 1, n), k \div n)

RECURSIVE Distinct(_)
\* the distinct elements of a sequence, by first occurrence
Distinct(s) ==
    IF s = <<>> THEN <<>>
    ELSE LET front == Distinct(SubSeq(s, 1, Len(s) - 1))
             last  == s[Len(s)]
         IN  IF \E i \in 1..Len(front) : front[i] = last
             THEN front ELSE Append(front, last)

RECURSIVE inferrer_get_type_name(_)
\* TypeInferrer._get_type_name
inferrer_get_type_name(node) ==
    CASE node.kind = "NoNode"    -> PyNone
      [] node.kind = "Name"      -> node.id
      [] node.kind = "Attribute" -> inferrer_get_type_name(node.value) \o "." \o node.attr
      [] node.kind = "Subscript" ->
            inferrer_get_type_name(node.value) \o "["
               \o inferrer_get_type_name(node.slice) \o "]"
      [] node.kind = "Constant"  -> node.repr
      [] OTHER                   -> "<ast." \o node.kind \o " object>"

\* the entries of the dict literal of _infer_type_from_method, in source order
method_type_items ==
    << <<"append", "List">>, <<"extend", "List">>, <<"insert", "List">>,
       <<"remove", "List">>, <<"pop", "List">>, <<"clear", "List">>,
       <<"index", "List">>, <<"count", "List">>, <<"sort", "List">>,
       <<"reverse", "List">>, <<"copy", "List">>,
       <<"update", "Dict">>, <<"get", "Dict">>, <<"setdefault", "Dict">>,
       <<"popitem", "Dict">>, <<"keys", "Dict">>, <<"values", "Dict">>,
       <<"items", "Dict">>,
       <<"add", "Set">>, <<"remove", "Set">>, <<"discard", "Set">>,
       <<"pop", "Set">>, <<"clear", "Set">>, <<"union", "Set">>,
       <<"intersection", "Set">>, <<"difference", "Set">>,
       <<"symmetric_difference", "Set">>,
       <<"strip", "str">>, <<"split", "str">>, <<"join", "str">>,
       <<"replace", "str">>, <<"upper", "str">>, <<"lower", "str">>,
       <<"capitalize", "str">>, <<"title", "str">> >>

\* a dict literal in which the first item of a key stays
DictOf_first_wins(items) ==
    LET n     == Len(items)
        first == SelectSeq([i \in 1..n |-> i],
                           LAMBDA i : \A j \in 1..(i - 1) : items[j][1] # items[i][1])
        first_of(k) == CHOOSE i \in 1..n :
                          items[i][1] = k /\ \A j \in 1..(i - 1) : items[j][1] # k
    IN  [keys |-> [m \in 1..Len(first) |-> items[first[m]][1]],
         vals |-> [k \in {items[i][1] : i \in 1..n} |-> items[first_of(k)][2]]]

\* a dict literal: the items are stored in order, a later key overrides
\* (a key keeps the place of its first occurrence and the value of its last)
DictOf(items) ==
    LET n     == Len(items)
        first == SelectSeq([i \in 1..n |-> i],
                           LAMBDA i : \A j \in 1..(i - 1) : items[j][1] # items[i][1])
        last(k) == CHOOSE i \in 1..n :
                      items[i][1] = k /\ \A j \in (i + 1)..n : items[j][1] # k
    IN  [keys |-> [m \in 1..Len(first) |-> items[first[m]][1]],
         vals |-> [k \in {items[i][1] : i \in 1..n} |-> items[last(k)][2]]]

method_type_map == DictOf(method_type_items)

\* TypeInferrer._infer_type_from_method
infer_type_from_method(method_name) == DictGetStr(method_type_map, method_name)

\* TypeInferrer._infer_type_from_operation
infer_type_from_operation(op) ==
    IF op \in {"Add", "Sub", "Mult", "Div", "Mod", "Pow"} THEN "int"
    ELSE IF op = "MatMult" THEN "Any"
    ELSE IF op \in {"LShift", "RShift", "BitOr", "BitXor", "BitAnd"} THEN "int"
    ELSE PyNone

\* _get_constant_type testing int before bool
get_constant_type_int_first(value) ==
    IF value.pytype = "str" THEN "str"
    ELSE IF value.pytype \in {"int", "bool"} THEN "int"
    ELSE IF value.pytype = "bool" THEN "bool"
    ELSE IF value.pytype = "float" THEN "float"
    ELSE IF value.pytype = "NoneType" THEN "None"
    ELSE value.pytype

\* TypeInferrer._get_constant_type
get_constant_type(value) ==
    IF value.pytype = "str" THEN "str"
    ELSE IF value.pytype = "bool" THEN "bool"
    ELSE IF value.pytype \in {"int", "bool"} THEN "int"
    ELSE IF value.pytype = "float" THEN "float"
    ELSE IF value.pytype = "NoneType" THEN "None"
    ELSE value.pytype

\* _infer_call_type resolving no call
infer_call_type_unknown(node, st) == PyNone

\* TypeInferrer._infer_call_type
infer_call_type(node, st) ==
    IF node.func.kind = "Name" /\ DictHas(st.fs, node.func.id)
    THEN SigReturns(st.fs.vals[node.func.id])
    ELSE PyNone

\* TypeInferrer._infer_attribute_type
infer_attribute_type(node) == PyNone

RECURSIVE infer_expression_type(_, _)
\* _infer_binop_type applying its str / numeric rules to every operator
infer_binop_type_any_operator(node, st) ==
    LET left_type  == infer_expression_type(node.left, st)
        right_type == infer_expression_type(node.right, st)
    IN  IF left_type = "str" /\ right_type = "str"
        THEN "str"
        ELSE IF left_type \in {"int", "float"} /\ right_type \in {"int", "float"}
        THEN (IF "float" \in {left_type, right_type} THEN "float" ELSE "int")
        ELSE left_type

\* TypeInferrer._infer_binop_type
infer_binop_type(node, st) ==
    LET left_type  == infer_expression_type(node.left, st)
        right_type == infer_expression_type(node.right, st)
    IN  IF node.op \in {"Add", "Sub", "Mult", "Div"}
           /\ left_type = "str" /\ right_type = "str"
        THEN "str"
        ELSE IF node.op \in {"Add", "Sub", "Mult", "Div"}
                /\ left_type \in {"int", "float"} /\ right_type \in {"int", "float"}
        THEN (IF "float" \in {left_type, right_type} THEN "float" ELSE "int")
        ELSE left_type

\* TypeInferrer._infer_unaryop_type
infer_unaryop_type(node, st) ==
    LET operand_type == infer_expression_type(node.operand, st)
    IN  IF node.op \in {"UAdd", "USub"} /\ operand_type \in {"int", "float"}
        THEN operand_type
        ELSE operand_type

\* TypeInferrer._infer_expression_type
infer_expression_type(node, st) ==
    CASE node.kind = "Constant"  -> get_constant_type(node)
      [] node.kind = "Name"      -> DictGetStr(st.vt, node.id)
      [] node.kind = "List"      -> "List"
      [] node.kind = "Dict"      -> "Dict"
      [] node.kind = "Tuple"     -> "Tuple"
      [] node.kind = "Set"       -> "Set"
      [] node.kind = "Call"      -> infer_call_type(node, st)
      [] node.kind = "Attribute" -> infer_attribute_type(node)
      [] node.kind = "BinOp"     -> infer_binop_type(node, st)
      [] node.kind = "UnaryOp"   -> infer_unaryop_type(node, st)
      [] OTHER                   -> PyNone

\* [arg.arg for arg in func.args.args]
ArgNames(func) == {func.args[i].arg : i \in 1..Len(func.args)}

\* _infer_argument_types keeping the first type found for an argument
infer_argument_types_step_first_wins(func, node, arg_types) ==
    IF node.kind = "Call"
    THEN IF /\ node.func.kind = "Attribute"
            /\ node.func.value.kind = "Name"
            /\ node.func.value.id \in ArgNames(func)
            /\ Truthy(infer_type_from_method(node.func.attr))
            /\ ~DictHas(arg_types, node.func.value.id)
         THEN DictSet(arg_types, node.func.value.id,
                      infer_type_from_method(node.func.attr))
         ELSE arg_types
    ELSE IF /\ node.kind = "BinOp"
            /\ node.left.kind = "Name"
            /\ node.left.id \in ArgNames(func)
            /\ Truthy(infer_type_from_operation(node.op))
            /\ ~DictHas(arg_types, node.left.id)
         THEN DictSet(arg_types, node.left.id, infer_type_from_operation(node.op))
         ELSE arg_types

\* one iteration of the loop of _infer_argument_types
infer_argument_types_step(func, node, arg_types) ==
    IF node.kind = "Call"
    THEN IF /\ node.func.kind = "Attribute"
            /\ node.func.value.kind = "Name"
            /\ node.func.value.id \in ArgNames(func)
            /\ Truthy(infer_type_from_method(node.func.attr))
         THEN DictSet(arg_types, node.func.value.id,
                      infer_type_from_method(node.func.attr))
         ELSE arg_types
    ELSE IF /\ node.kind = "BinOp"
            /\ node.left.kind = "Name"
            /\ node.left.id \in ArgNames(func)
            /\ Truthy(infer_type_from_operation(node.op))
         THEN DictSet(arg_types, node.left.id, infer_type_from_operation(node.op))
         ELSE arg_types

RECURSIVE infer_argument_types_loop(_, _)
infer_argument_types_loop(func, nodes) ==
    IF nodes = <<>> THEN EmptyDict
    ELSE LET n == Len(nodes)
         IN  infer_argument_types_step(func, nodes[n],
                 infer_argument_types_loop(func, SubSeq(nodes, 1, n - 1)))

\* TypeInferrer._infer_argument_types: the dict, EmptyDict standing for None
infer_argument_types(func) ==
    infer_argument_types_loop(func, OfKinds(Walk(func), {"Call", "BinOp"}))

\* the return_types list of _infer_return_type
return_types_of(func, st) ==
    LET rets   == SelectSeq(OfKind(Walk(func), "Return"), LAMBDA r : r.value # NoNode)
        types  == Map(rets, LAMBDA r : infer_expression_type(r.value, st))
    IN  SelectSeq(types, Truthy)

\* _infer_return_type answering with the first collected type
infer_return_type_first(func, st, seed) ==
    LET return_types == return_types_of(func, st)
    IN  IF return_types = <<>> THEN PyNone ELSE return_types[1]

\* TypeInferrer._infer_return_type
infer_return_type(func, st, seed) ==
    LET return_types == return_types_of(func, st)
        members      == Distinct(return_types)
    IN  IF return_types = <<>> THEN PyNone
        ELSE IF Len(members) = 1 THEN return_types[1]
        ELSE "Union[" \o Join(Permuted(members, seed), ", ") \o "]"

\* TypeInferrer._infer_function_signature: the signature dict; one with no
\* keys stands for None
infer_function_signature(func, st, seed) ==
    LET arg_types   == infer_argument_types(func)
        return_type == infer_return_type(func, st, seed)
    IN  Signature((IF DictLen(arg_types) > 0 THEN {"args"} ELSE {})
                     \cup (IF Truthy(return_type) THEN {"returns"} ELSE {}),
                  arg_types,
                  IF Truthy(return_type) THEN return_type ELSE PyNone)

\* one iteration of the loop of _collect_basic_types
collect_basic_types_step(node, st) ==
    IF node.kind = "AnnAssign" /\ node.target.kind = "Name"
    THEN IF Truthy(inferrer_get_type_name(node.annotation))
         THEN [st EXCEPT !.vt = DictSet(st.vt, node.target.id,
                                        inferrer_get_type_name(node.annotation))]
         ELSE st
    ELSE IF node.kind = "FunctionDef" /\ node.returns # NoNode
              /\ Truthy(inferrer_get_type_name(node.returns))
         THEN [st EXCEPT !.fs = DictSet(st.fs, node.name,
                   Signature({"returns"}, EmptyDict,
                             inferrer_get_type_name(node.returns)))]
         ELSE st

\* _infer_function_signatures storing the signature without testing it
infer_function_signatures_step_always(node, st, seed) ==
    IF node.kind = "FunctionDef"
    THEN [st EXCEPT !.fs = DictSet(st.fs, node.name,
                                   infer_function_signature(node, st, seed))]
    ELSE st

\* one iteration of the loop of _infer_function_signatures
infer_function_signatures_step(node, st, seed) ==
    IF node.kind = "FunctionDef"
          /\ infer_function_signature(node, st, seed).keys # {}
    THEN [st EXCEPT !.fs = DictSet(st.fs, node.name,
                                   infer_function_signature(node, st, seed))]
    ELSE st

\* _infer_variable_types leaving a name that has a type alone
infer_variable_types_step_keep_seed(node, st) ==
    IF node.kind = "Assign" /\ node.targets[1].kind = "Name"
          /\ Truthy(infer_expression_type(node.value, st))
          /\ ~DictHas(st.vt, node.targets[1].id)
    THEN [st EXCEPT !.vt = DictSet(st.vt, node.targets[1].id,
                                   infer_expression_type(node.value, st))]
    ELSE st

\* one iteration of the loop of _infer_variable_types (a single target)
infer_variable_types_step(node, st) ==
    IF node.kind = "Assign" /\ node.targets[1].kind = "Name"
          /\ Truthy(infer_expression_type(node.value, st))
    THEN [st EXCEPT !.vt = DictSet(st.vt, node.targets[1].id,
                                   infer_expression_type(node.value, st))]
    ELSE st

RECURSIVE collect_basic_types_loop(_, _)
collect_basic_types_loop(nodes, st) ==
    IF nodes = <<>> THEN st
    ELSE collect_basic_types_loop(Tail(nodes), collect_basic_types_step(Head(nodes), st))

RECURSIVE infer_function_signatures_loop(_, _, _)
infer_function_signatures_loop(nodes, st, seed) ==
    IF nodes = <<>> THEN st
    ELSE infer_function_signatures_loop(Tail(nodes),
             infer_function_signatures_step(Head(nodes), st, seed), seed)

RECURSIVE infer_variable_types_loop(_, _)
infer_variable_types_loop(nodes, st) ==
    IF nodes = <<>> THEN st
    ELSE infer_variable_types_loop(Tail(nodes), infer_variable_types_step(Head(nodes), st))

\* TypeInferrer._collect_basic_types
collect_basic_types(t, st) ==
    collect_basic_types_loop(OfKinds(Walk(t), {"AnnAssign", "FunctionDef"}), st)

\* TypeInferrer._infer_function_signatures
infer_function_signatures(t, st, seed) ==
    infer_function_signatures_loop(OfKind(Walk(t), "FunctionDef"), st, seed)

\* TypeInferrer._infer_variable_types
infer_variable_types(t, st) == infer_variable_types_loop(OfKind(Walk(t), "Assign"), st)

\* infer_types without the clear() calls
infer_types_keep(st) == st

\* infer_types clearing only _function_signatures
infer_types_clear_signatures(st) == [st EXCEPT !.fs = EmptyDict]

\* the three clear() calls that open infer_types
infer_types_clear(st) == [fs |-> EmptyDict, vt |-> EmptyDict, tm |-> EmptyDict]

\* TypeInferrer.infer_types: the engine's maps after the call, from the maps
\* before it
infer_types(t, st, seed) ==
    LET cleared == infer_types_clear(st)
        first   == collect_basic_types(t, cleared)
        second  == infer_function_signatures(t, first, seed)
    IN  infer_variable_types(t, second)

\* TypeInferrer.get_inferred_function_signature: the signature, one with no
\* keys standing for None
get_inferred_function_signature(fs, func_name) ==
    IF DictHas(fs, func_name) THEN fs.vals[func_name]
    ELSE Signature({}, EmptyDict, PyNone)

-----------------------------------------------------------------------------
(* The source files of the model: a path, whether it can be read, whether  *)
(* it parses, and its syntax tree.                                         *)

\* positional arguments of the calls of CallFile range over 0..MaxCallArgs
MaxCallArgs == 2

SourceFile(path, readable, syntax_ok, t) ==
    [path |-> path, readable |-> readable, syntax_ok |-> syntax_ok, tree |-> t]

Ann(annotated, type) == IF annotated THEN Name(type) ELSE NoNode

\* def add(a[: int], b: int)[ -> int]:
\*     return a + b
AddFile(annA, annRet) ==
    SourceFile("add_" \o (IF annA THEN "a" ELSE "") \o (IF annRet THEN "r" ELSE "") \o ".py",
        TRUE, TRUE,
        Module(<<
            FunctionDef("add", <<Arg("a", Ann(annA, "int")), Arg("b", Name("int"))>>,
                        Ann(annRet, "int"),
                        <<Return(BinOp(Name("a"), "Add", Name("b")))>>, 1) >>))

\* def add(a, b):
\*     return a + b
\*
\* x = 42
\* y = 'hello'
\* add(1, ..., 1)            (n positional arguments)
CallFile(n) ==
    SourceFile("call" \o ToString(n) \o ".py", TRUE, TRUE,
        Module(<<
            FunctionDef("add", <<Arg("a", NoNode), Arg("b", NoNode)>>, NoNode,
                        <<Return(BinOp(Name("a"), "Add", Name("b")))>>, 1),
            Assign(Name("x"), IntLit("42"), 4),
            Assign(Name("y"), StrLit("hello"), 5),
            Expr(Call(Name("add"), [i \in 1..n |-> IntLit("1")], <<>>, 6)) >>))

\* def f():
\*     pass
\* f(1, 2)
NoSigFile ==
    SourceFile("nosig.py", TRUE, TRUE,
        Module(<<
            FunctionDef("f", <<>>, NoNode, <<Pass>>, 1),
            Expr(Call(Name("f"), <<IntLit("1"), IntLit("2")>>, <<>>, 3)) >>))

\* def push(items, v) -> None:
\*     items.append(v)
\* def size(items):
\*     return 0
\* n = size(1, 2)
\* push(1)
\* obj.push(1, 2, 3)
\* push(1, v=2)
\* push()
StackFile ==
    SourceFile("stack.py", TRUE, TRUE,
        Module(<<
            FunctionDef("push", <<Arg("items", NoNode), Arg("v", NoNode)>>,
                        Constant("NoneType", "None"),
                        <<Expr(Call(Attribute(Name("items"), "append"),
                                    <<Name("v")>>, <<>>, 2))>>, 1),
            FunctionDef("size", <<Arg("items", NoNode)>>, NoNode,
                        <<Return(IntLit("0"))>>, 3),
            Assign(Name("n"), Call(Name("size"), <<IntLit("1"), IntLit("2")>>, <<>>, 5), 5),
            Expr(Call(Name("push"), <<IntLit("1")>>, <<>>, 6)),
            Expr(Call(Attribute(Name("obj"), "push"),
                      <<IntLit("1"), IntLit("2"), IntLit("3")>>, <<>>, 7)),
            Expr(Call(Name("push"), <<IntLit("1")>>, <<IntLit("2")>>, 8)),
            Expr(Call(Name("push"), <<>>, <<>>, 9)) >>))

\* def outer(x):
\*     def inner(y) -> int:
\*         return y * 2
\*     return inner(x)
\* def later(z: int):
\*     return z
\* total: int = outer(1)
NestedFile ==
    SourceFile("nested.py", TRUE, TRUE,
        Module(<<
            FunctionDef("outer", <<Arg("x", NoNode)>>, NoNode,
                        <<FunctionDef("inner", <<Arg("y", NoNode)>>, Name("int"),
                                      <<Return(BinOp(Name("y"), "Mult", IntLit("2")))>>, 2),
                          Return(Call(Name("inner"), <<Name("x")>>, <<>>, 4))>>, 1),
            FunctionDef("later", <<Arg("z", Name("int"))>>, NoNode,
                        <<Return(Name("z"))>>, 5),
            AnnAssign(Name("total"), Name("int"),
                      Call(Name("outer"), <<IntLit("1")>>, <<>>, 7), 7) >>))

\* def pick(flag):
\*     return "s"
\*     return 1
\* def pick(flag) -> str:
\*     return flag.strip()
UnionFile ==
    SourceFile("union.py", TRUE, TRUE,
        Module(<<
            FunctionDef("pick", <<Arg("flag", NoNode)>>, NoNode,
                        <<Return(StrLit("s")), Return(IntLit("1"))>>, 1),
            FunctionDef("pick", <<Arg("flag", NoNode)>>, Name("str"),
                        <<Return(Call(Attribute(Name("flag"), "strip"), <<>>, <<>>, 5))>>,
                        4) >>))

\* a file that does not parse (def add(...): return a + b / invalid syntax)
SyntaxErrorFile == SourceFile("broken.py", TRUE, FALSE, NoNode)

\* a path that cannot be opened
UnreadableFile == SourceFile("missing.py", FALSE, FALSE, NoNode)

Files ==
    {AddFile(annA, annRet) : annA \in BOOLEAN, annRet \in BOOLEAN}
    \cup {CallFile(n) : n \in 0..MaxCallArgs}
    \cup {NoSigFile, StackFile, NestedFile, UnionFile, SyntaxErrorFile, UnreadableFile}

Paths == {f.path : f \in Files}

\* the file system: the file at a path
FileAt(path) == CHOOSE f \in Files : f.path = path

\* the hash seeds of the model: each order of a two-member set of str
HashSeeds == {0, 1}

Configs == [strict : BOOLEAN, infer : BOOLEAN, fix : BOOLEAN]

-----------------------------------------------------------------------------
(* checker.py: TypeChecker.  check_file is the state machine               *)
(*   Parsing -> Extracting -> Inferring -> CheckingSignatures ->           *)
(*   CheckingAssignments -> CheckingAnnotations -> CheckingCallSites ->    *)
(*   Reporting -> Done,   Parsing -> Failed;                               *)
(* pc names the stage that runs next.                                      *)

Issue(type, message, line, file) ==
    [type |-> type, message |-> message, line |-> line, file |-> file]

\* signature_errors without the test of has_return_annotation
signature_errors_any_return(cfg, path, sig) ==
    IF cfg.strict
    THEN <<Issue("missing_return_type",
                 "Missing return type annotation for function '" \o sig.name \o "'",
                 sig.lineno, path)>>
    ELSE <<>>

\* signature_errors without the test of config.strict
signature_errors_any_mode(cfg, path, sig) ==
    IF ~sig.has_return_annotation
    THEN <<Issue("missing_return_type",
                 "Missing return type annotation for function '" \o sig.name \o "'",
                 sig.lineno, path)>>
    ELSE <<>>

\* the errors _check_function_signatures appends for one signature
signature_errors(cfg, path, sig) ==
    IF cfg.strict /\ ~sig.has_return_annotation
    THEN <<Issue("missing_return_type",
                 "Missing return type annotation for function '" \o sig.name \o "'",
                 sig.lineno, path)>>
    ELSE <<>>

\* signature_warnings stopping at the first argument
signature_warnings_first_arg(cfg, path, sig) ==
    Concat(Map(SubSeq(sig.args, 1, IF Len(sig.args) > 0 THEN 1 ELSE 0), LAMBDA arg :
        IF cfg.strict /\ ~arg.has_annotation
        THEN <<Issue("missing_arg_type",
                     "Missing type annotation for parameter '" \o arg.name
                        \o "' in function '" \o sig.name \o "'",
                     sig.lineno, path)>>
        ELSE <<>>))

\* the warnings _check_function_signatures appends for one signature
signature_warnings(cfg, path, sig) ==
    Concat(Map(sig.args, LAMBDA arg :
        IF cfg.strict /\ ~arg.has_annotation
        THEN <<Issue("missing_arg_type",
                     "Missing type annotation for parameter '" \o arg.name
                        \o "' in function '" \o sig.name \o "'",
                     sig.lineno, path)>>
        ELSE <<>>))

\* the issue of a site without the site's line
missing_annotation_issue_no_line(path, site) ==
    Issue("missing_annotation", "Missing type annotation for " \o site.item,
          Len(<<>>), path)

\* the issue _check_missing_annotations appends for one site
missing_annotation_issue(path, site) ==
    Issue("missing_annotation", "Missing type annotation for " \o site.item,
          site.line, path)

\* the error _check_function_call appends on a mismatch
argument_count_mismatch(path, node, expected) ==
    Issue("argument_count_mismatch",
          "Function '" \o node.func.id \o "' expects " \o ToString(expected)
             \o " arguments, got " \o ToString(Len(node.args)),
          node.lineno, path)

\* check_function_call without the test 'args' in signature
check_function_call_any_signature(cfg, fs, path, node) ==
    IF /\ node.func.kind = "Name"
       /\ cfg.infer
       /\ get_inferred_function_signature(fs, node.func.id).keys # {}
       /\ Len(node.args) # DictLen(get_inferred_function_signature(fs, node.func.id).args)
    THEN <<argument_count_mismatch(path, node,
              DictLen(get_inferred_function_signature(fs, node.func.id).args))>>
    ELSE <<>>

\* check_function_call flagging only the calls with too many arguments
check_function_call_too_many(cfg, fs, path, node) ==
    IF /\ node.func.kind = "Name"
       /\ cfg.infer
       /\ get_inferred_function_signature(fs, node.func.id).keys # {}
       /\ "args" \in get_inferred_function_signature(fs, node.func.id).keys
       /\ Len(node.args) > DictLen(get_inferred_function_signature(fs, node.func.id).args)
    THEN <<argument_count_mismatch(path, node,
              DictLen(get_inferred_function_signature(fs, node.func.id).args))>>
    ELSE <<>>

\* TypeChecker._check_function_call: the errors it appends for one Call node
check_function_call(cfg, fs, path, node) ==
    IF /\ node.func.kind = "Name"
       /\ cfg.infer
       /\ get_inferred_function_signature(fs, node.func.id).keys # {}
       /\ "args" \in get_inferred_function_signature(fs, node.func.id).keys
       /\ Len(node.args) # DictLen(get_inferred_function_signature(fs, node.func.id).args)
    THEN <<argument_count_mismatch(path, node,
              DictLen(get_inferred_function_signature(fs, node.func.id).args))>>
    ELSE <<>>

\* repr of a dict of str
DictRepr(d) ==
    "{" \o Join(Map(d.keys, LAMBDA k : "'" \o k \o "': '" \o d.vals[k] \o "'"), ", ")
        \o "}"

\* repr of an inferred signature
SignatureRepr(sig) ==
    "{" \o Join((IF "args" \in sig.keys
                 THEN <<"'args': " \o DictRepr(sig.args)>> ELSE <<>>)
                \o (IF "returns" \in sig.keys
                    THEN <<"'returns': '" \o sig.returns \o "'">> ELSE <<>>), ", ")
        \o "}"

\* TypeChecker._report_inferred_types: the messages passed to report_info
report_inferred_types(path, fs, vt) ==
    (IF DictLen(fs) > 0
     THEN <<"Inferred function signatures in " \o path \o ":">>
          \o Map(fs.keys, LAMBDA k : "  " \o k \o ": " \o SignatureRepr(fs.vals[k]))
     ELSE <<>>)
    \o (IF DictLen(vt) > 0
        THEN <<"Inferred variable types in " \o path \o ":">>
             \o Map(vt.keys, LAMBDA k : "  " \o k \o ": " \o vt.vals[k])
        ELSE <<>>)

\* Reporter.report_error / report_warning: the record appended for an issue
Reported(issue, severity) ==
    [file |-> issue.file, line |-> issue.line, message |-> issue.message,
     type |-> issue.type, severity |-> severity]

\* _report_issues forwarding the errors only
report_issues_errors_only(errs, warns) ==
    Map(errs, LAMBDA e : Reported(e, "error"))

\* TypeChecker._report_issues: the records of the report_error calls, then
\* those of the report_warning calls, in call order
report_issues(errs, warns) ==
    Map(errs, LAMBDA e : Reported(e, "error"))
    \o Map(warns, LAMBDA w : Reported(w, "warning"))

\* TypeChecker._auto_fix_file: the messages passed to report_info
auto_fix_file(cfg, path) ==
    IF cfg.fix THEN <<"Auto-fixing " \o path \o " (placeholder)">> ELSE <<>>

\* check_file without the clear() calls
check_file_keep(issues) == issues

\* the two clear() calls that open check_file
check_file_clear(issues) == <<>>

\* check_file returning len(self.errors) when parsing fails
parse_failure_result_len == Len(<<>>)

\* check_file's value when parsing fails
parse_failure_result == 1

Init ==
    /\ config \in Configs
    /\ hash_seed \in HashSeeds
    /\ pc = "Idle"
    /\ file_path = PyNone
    /\ tree = NoNode
    /\ analysis = NoAnalysis
    /\ errors = <<>>
    /\ warnings = <<>>
    /\ function_signatures = EmptyDict
    /\ variable_types = EmptyDict
    /\ type_map = EmptyDict
    /\ rep_errors = <<>>
    /\ rep_warnings = <<>>
    /\ info_messages = <<>>
    /\ stderr = <<>>
    /\ ret = 0
    /\ total_errors = 0
    /\ total_files = 0
    /\ n_targets \in 1..MaxFiles
    /\ exit_code = -1

\* check_file is entered for the driver's next target: the issue lists are cleared
check_file(path) ==
    /\ pc \in {"Idle", "Done", "Failed"}
    /\ total_files < n_targets
    /\ file_path' = path
    /\ errors' = check_file_clear(errors)
    /\ warnings' = check_file_clear(warnings)
    /\ tree' = NoNode
    /\ analysis' = NoAnalysis
    /\ pc' = "Parsing"
    /\ UNCHANGED <<config, hash_seed, inferrer_vars, reporter_vars, stderr, driver_vars>>

\* tree = self.analyzer.parse_file(file_path); if tree is None: return 1
Parsing ==
    /\ pc = "Parsing"
    /\ tree' = parse_file(FileAt(file_path))
    /\ stderr' = stderr \o parse_file_stderr(FileAt(file_path))
    /\ IF tree' = NoNode
       THEN /\ pc' = "Failed"
            /\ ret' = parse_failure_result
            /\ total_errors' = total_errors + ret'
            /\ total_files' = total_files + 1
            /\ UNCHANGED <<n_targets, exit_code>>
       ELSE /\ pc' = "Extracting"
            /\ UNCHANGED driver_vars
    /\ UNCHANGED <<config, hash_seed, file_path, analysis, checker_vars, inferrer_vars,
                   reporter_vars>>

\* analysis = self.analyzer.analyze_ast(tree)
Extracting ==
    /\ pc = "Extracting"
    /\ analysis' = analyze_ast(config, tree)
    /\ pc' = "Inferring"
    /\ UNCHANGED <<config, hash_seed, file_path, tree, checker_vars, inferrer_vars,
                   reporter_vars, stderr, driver_vars>>

\* if self.config.infer: infer_types, _report_inferred_types
Inferring ==
    /\ pc = "Inferring"
    /\ IF config.infer
       THEN LET st == infer_types(tree,
                          [fs |-> function_signatures, vt |-> variable_types,
                           tm |-> type_map], hash_seed)
            IN  /\ function_signatures' = st.fs
                /\ variable_types' = st.vt
                /\ type_map' = st.tm
                /\ info_messages' =
                      info_messages \o report_inferred_types(file_path, st.fs, st.vt)
       ELSE UNCHANGED <<inferrer_vars, info_messages>>
    /\ pc' = "CheckingSignatures"
    /\ UNCHANGED <<config, hash_seed, file_vars, checker_vars, rep_errors, rep_warnings,
                   stderr, driver_vars>>

\* self._check_function_signatures(file_path, tree)
CheckingSignatures ==
    /\ pc = "CheckingSignatures"
    /\ LET signatures == get_function_signatures(tree)
       IN  /\ errors' = errors \o Concat(Map(signatures,
                            LAMBDA sig : signature_errors(config, file_path, sig)))
           /\ warnings' = warnings \o Concat(Map(signatures,
                            LAMBDA sig : signature_warnings(config, file_path, sig)))
    /\ pc' = "CheckingAssignments"
    /\ UNCHANGED <<config, hash_seed, file_vars, inferrer_vars, reporter_vars, stderr,
                   driver_vars>>

\* self._check_variable_assignments(file_path, tree): appends nothing
CheckingAssignments ==
    /\ pc = "CheckingAssignments"
    /\ pc' = "CheckingAnnotations"
    /\ UNCHANGED <<config, hash_seed, file_vars, checker_vars, inferrer_vars,
                   reporter_vars, stderr, driver_vars>>

\* self._check_missing_annotations(file_path, analysis)
CheckingAnnotations ==
    /\ pc = "CheckingAnnotations"
    /\ LET issues == Map(analysis.missing_annotations,
                         LAMBDA site : missing_annotation_issue(file_path, site))
       IN  IF config.strict
           THEN errors' = errors \o issues /\ UNCHANGED warnings
           ELSE warnings' = warnings \o issues /\ UNCHANGED errors
    /\ pc' = "CheckingCallSites"
    /\ UNCHANGED <<config, hash_seed, file_vars, inferrer_vars, reporter_vars, stderr,
                   driver_vars>>

\* self._check_type_mismatches(file_path, tree)
CheckingCallSites ==
    /\ pc = "CheckingCallSites"
    /\ errors' = errors \o Concat(Map(OfKind(Walk(tree), "Call"),
                     LAMBDA node : check_function_call(config, function_signatures,
                                                       file_path, node)))
    /\ pc' = "Reporting"
    /\ UNCHANGED <<config, hash_seed, file_vars, warnings, inferrer_vars, reporter_vars,
                   stderr, driver_vars>>

\* self._report_issues(file_path); the auto-fix notice; return len(self.errors)
Reporting ==
    /\ pc = "Reporting"
    /\ LET calls == report_issues(errors, warnings)
       IN  /\ rep_errors' = rep_errors \o SelectSeq(calls, LAMBDA r : r.severity = "error")
           /\ rep_warnings' =
                 rep_warnings \o SelectSeq(calls, LAMBDA r : r.severity = "warning")
    /\ info_messages' = info_messages \o auto_fix_file(config, file_path)
    /\ ret' = Len(errors)
    /\ total_errors' = total_errors + ret'
    /\ total_files' = total_files + 1
    /\ UNCHANGED <<n_targets, exit_code>>
    /\ pc' = "Done"
    /\ UNCHANGED <<config, hash_seed, file_vars, checker_vars, inferrer_vars, stderr>>

\* main returning the number of errors
main_result_count(total) == total

\* cli.main: return 0 if total_errors == 0 else 1
main_result(total) == IF total = 0 THEN 0 ELSE 1

\* every target has been checked: main returns
main_return ==
    /\ pc \in {"Done", "Failed"}
    /\ total_files = n_targets
    /\ exit_code' = main_result(total_errors)
    /\ pc' = "Exited"
    /\ UNCHANGED <<config, hash_seed, file_vars, checker_vars, inferrer_vars,
                   reporter_vars, stderr, ret, total_errors, total_files, n_targets>>

Next ==
    \/ \E path \in Paths : check_file(path)
    \/ Parsing
    \/ Extracting
    \/ Inferring
    \/ CheckingSignatures
    \/ CheckingAssignments
    \/ CheckingAnnotations
    \/ CheckingCallSites
    \/ Reporting
    \/ main_return

Spec == Init /\ [][Next]_vars

-----------------------------------------------------------------------------
(* check_file as a function of the file: what a fresh TypeChecker finds.   *)

\* the maps of a fresh TypeInferrer
FreshInferrer == [fs |-> EmptyDict, vt |-> EmptyDict, tm |-> EmptyDict]

\* self.errors at the end of check_file on tree t, from an empty list
check_file_errors(cfg, path, t, seed) ==
    LET fs == IF cfg.infer THEN infer_types(t, FreshInferrer, seed).fs ELSE EmptyDict
    IN  Concat(Map(get_function_signatures(t),
                   LAMBDA sig : signature_errors(cfg, path, sig)))
        \o (IF cfg.strict
            THEN Map(analyze_ast(cfg, t).missing_annotations,
                     LAMBDA site : missing_annotation_issue(path, site))
            ELSE <<>>)
        \* without an inferred signature no call is compared
        \o (IF DictLen(fs) = 0
            THEN <<>>
            ELSE Concat(Map(OfKind(Walk(t), "Call"),
                            LAMBDA node : check_function_call(cfg, fs, path, node))))

\* self.warnings at the end of check_file on tree t, from an empty list
check_file_warnings(cfg, path, t) ==
    Concat(Map(get_function_signatures(t),
               LAMBDA sig : signature_warnings(cfg, path, sig)))
    \o (IF cfg.strict
        THEN <<>>
        ELSE Map(analyze_ast(cfg, t).missing_annotations,
                 LAMBDA site : missing_annotation_issue(path, site)))

-----------------------------------------------------------------------------
(* The inference engine on its own: a TypeInferrer whose maps hold         *)
(* anything, and infer_types called on one tree after another.  A call is  *)
(* the sequence  clear -> seed pass -> signature pass -> variable pass.    *)

NoneLit  == Constant("NoneType", "None")
TrueLit  == Constant("bool", "True")
FloatLit == Constant("float", "3.14")

\* the literals of an assignment x = <literal>; the elements of a container
\* literal are left out (no pass looks at them outside a function body)
Literals ==
    {StrLit("s"), TrueLit, IntLit("42"), FloatLit, NoneLit,
     Literal("List"), Literal("Dict"), Literal("Tuple"), Literal("Set")}

\* x = <literal>
LiteralTree(lit) == Module(<<Assign(Name("x"), lit, 1)>>)

\* the operand of a return statement: nothing, a str, an int, None, or a
\* name that no assignment binds
ReturnValues == {NoNode, StrLit("s"), IntLit("1"), NoneLit, Name("u")}

\* up to two return statements (the hash seeds of the model give each order
\* of a set of two type names)
ReturnLists ==
    {<<>>} \cup {<<r>> : r \in ReturnValues}
           \cup {<<r1, r2>> : r1 \in ReturnValues, r2 \in ReturnValues}

\* def f(a)[ -> float]:
\*     [a.append(1)]
\*     return ...
\*     return ...
FnTree(annotated, uses_arg, rets) ==
    LET use  == IF uses_arg
                THEN <<Expr(Call(Attribute(Name("a"), "append"),
                                 <<IntLit("1")>>, <<>>, 2))>>
                ELSE <<>>
        body == use \o [i \in 1..Len(rets) |-> Return(rets[i])]
    IN  Module(<<FunctionDef("f", <<Arg("a", NoNode)>>, Ann(annotated, "float"),
                             IF body = <<>> THEN <<Pass>> ELSE body, 1)>>)

\* the method names called on an argument: those of the table and two others
MethodNames == DictKeySet(method_type_map) \cup {"unknown_method", "unknown_xyz"}

\* def f(a):
\*     a.<method>(1)
MethodTree(method) ==
    Module(<<FunctionDef("f", <<Arg("a", NoNode)>>, NoNode,
                         <<Expr(Call(Attribute(Name("a"), method),
                                     <<IntLit("1")>>, <<>>, 2))>>, 1)>>)

\* the right-hand sides of an assignment to an annotated name
AssignedValues ==
    {StrLit("s"), IntLit("1"), Name("u"), Name("x"),
     Call(Name("g"), <<>>, <<>>, 2), BinOp(IntLit("1"), "Add", FloatLit)}

\* x: int   and   x = <value>, in either order
VarTree(annotation_first, value) ==
    LET decl   == AnnAssign(Name("x"), Name("int"), NoNode, 1)
        assign == Assign(Name("x"), value, 2)
    IN  Module(IF annotation_first THEN <<decl, assign>> ELSE <<assign, decl>>)

\* [x = 1]
\* def f(a):
\*     x = 's'
\*     y = 3.14
LocalAssignTree(module_level) ==
    Module((IF module_level THEN <<Assign(Name("x"), IntLit("1"), 1)>> ELSE <<>>)
           \o <<FunctionDef("f", <<Arg("a", NoNode)>>, NoNode,
                            <<Assign(Name("x"), StrLit("s"), 3),
                              Assign(Name("y"), FloatLit, 4)>>, 2)>>)

\* a call h() and the definition of h, in either order; the call is the value
\* of a module-level assignment or of the return statement of a function:
\*     x = h()                 def g():
\*                                 return h()
\*     def h()[ -> float]:
\*         return 1
ForwardTree(use_first, in_function, annotated) ==
    LET use_line == IF use_first THEN 1 ELSE 3
        def_line == IF use_first THEN (IF in_function THEN 3 ELSE 2) ELSE 1
        call(l)  == Call(Name("h"), <<>>, <<>>, l)
        use      == IF in_function
                    THEN FunctionDef("g", <<>>, NoNode,
                                     <<Return(call(use_line + 1))>>, use_line)
                    ELSE Assign(Name("x"), call(use_line), use_line)
        def      == FunctionDef("h", <<>>, Ann(annotated, "float"),
                                <<Return(IntLit("1"))>>, def_line)
    IN  Module(IF use_first THEN <<use, def>> ELSE <<def, use>>)

\* the operands of a binary operation: a str, an int, a float, a bool, or a
\* name that no assignment binds
Operands == {StrLit("s"), IntLit("1"), FloatLit, TrueLit, Name("u")}

\* operator classes of ast: + - * / and some of the others
Operators ==
    {"Add", "Sub", "Mult", "Div", "Mod", "Pow", "FloorDiv", "MatMult", "LShift", "BitOr"}

\* x = <left> <op> <right>
BinOpTree(left, op, right) == Module(<<Assign(Name("x"), BinOp(left, op, right), 1)>>)

\* type expressions: no annotation, int, None, 'int', typing.List, a.b.c,
\* List[int], typing.List[int], List[List[int]], Dict[str, int] (its slice a
\* tuple) and a list display
TypeExprs ==
    LET list_of_int == Subscript(Name("List"), Name("int"))
    IN  {NoNode, Name("int"), NoneLit, StrLit("int"),
         Attribute(Name("typing"), "List"),
         Attribute(Attribute(Name("a"), "b"), "c"),
         list_of_int,
         Subscript(Attribute(Name("typing"), "List"), Name("int")),
         Subscript(Name("List"), list_of_int),
         Subscript(Name("Dict"), Literal("Tuple")),
         Literal("List")}

\* def f(a[: <type>])[ -> <type>]:
\*     pass
\* [v: <type>]
AnnTree(type) ==
    Module(<<FunctionDef("f", <<Arg("a", type)>>, type, <<Pass>>, 1)>>
           \o (IF type = NoNode THEN <<>>
               ELSE <<AnnAssign(Name("v"), type, NoNode, 3)>>))

\* the binary operator classes of ast
BinaryOperators ==
    {"Add", "Sub", "Mult", "Div", "Mod", "Pow", "FloorDiv", "MatMult",
     "LShift", "RShift", "BitOr", "BitXor", "BitAnd"}

\* statements that use, or look like they use, a parameter of def f(a, b):
\* a.append(1)   a.strip()   a.unknown_method()   q.append(1)
\* a <op> 1   1 + a   b << 1   g(a ** 2)
ArgUses ==
    LET method(obj, m) == Expr(Call(Attribute(Name(obj), m), <<>>, <<>>, 2))
        binop(l, op, r) == Expr(BinOp(l, op, r))
    IN  {method("a", "append"), method("a", "strip"), method("a", "unknown_method"),
         method("q", "append"),
         binop(IntLit("1"), "Add", Name("a")),
         binop(Name("b"), "LShift", IntLit("1")),
         Expr(Call(Name("g"), <<BinOp(Name("a"), "Pow", IntLit("2"))>>, <<>>, 2))}
        \cup {binop(Name("a"), op, IntLit("1")) : op \in BinaryOperators}

\* def f(a, b):
\*     <use>
\*     <use>
ArgUseTree(uses) ==
    Module(<<FunctionDef("f", <<Arg("a", NoNode), Arg("b", NoNode)>>, NoNode, uses, 1)>>)

\* the trees infer_types is called on
InferTrees ==
    {LiteralTree(lit) : lit \in Literals}
    \cup {FnTree(ann, use, rets) : ann \in BOOLEAN, use \in BOOLEAN, rets \in ReturnLists}
    \cup {VarTree(first, v) : first \in BOOLEAN, v \in AssignedValues}
    \cup {MethodTree(m) : m \in MethodNames}
    \cup {LocalAssignTree(top) : top \in BOOLEAN}
    \cup {ForwardTree(first, fn, ann) :
              first \in BOOLEAN, fn \in BOOLEAN, ann \in BOOLEAN}
    \cup {BinOpTree(l, op, r) : l \in Operands, op \in Operators, r \in Operands}
    \cup {AnnTree(type) : type \in TypeExprs}
    \cup {ArgUseTree(<<u1, u2>>) : u1 \in ArgUses, u2 \in ArgUses}
    \cup {f.tree : f \in {g \in Files : g.readable /\ g.syntax_ok}}

\* what the engine's maps may hold before a call: nothing, or entries left
\* by earlier use, some under names the trees bind
StaleEngine ==
    [fs |-> DictSet(DictSet(EmptyDict, "old_func",
                            Signature({"returns"}, EmptyDict, "int")),
                    "f", Signature({"args"}, DictSet(EmptyDict, "a", "Dict"), PyNone)),
     vt |-> DictSet(DictSet(EmptyDict, "old_var", "str"), "x", "bytes"),
     tm |-> DictSet(EmptyDict, "old_expr", "int")]

PriorEngines == {FreshInferrer, StaleEngine}

\* the engine's maps
Engine == [fs |-> function_signatures, vt |-> variable_types, tm |-> type_map]

\* the engine's maps become st
SetEngine(st) ==
    /\ function_signatures' = st.fs
    /\ variable_types' = st.vt
    /\ type_map' = st.tm

InferInit ==
    /\ config = [strict |-> FALSE, infer |-> TRUE, fix |-> FALSE]
    /\ hash_seed \in HashSeeds
    /\ pc = "Ready"
    /\ file_path = PyNone
    /\ tree = NoNode
    /\ analysis = NoAnalysis
    /\ errors = <<>>
    /\ warnings = <<>>
    /\ \E st \in PriorEngines :
          /\ function_signatures = st.fs
          /\ variable_types = st.vt
          /\ type_map = st.tm
    /\ rep_errors = <<>>
    /\ rep_warnings = <<>>
    /\ info_messages = <<>>
    /\ stderr = <<>>
    /\ ret = 0
    /\ total_errors = 0
    /\ total_files = 0
    /\ n_targets = 1
    /\ exit_code = -1

\* infer_types(tree) is called
InferEnter(t) ==
    /\ pc \in {"Ready", "Returned"}
    /\ tree' = t
    /\ pc' = "Clearing"
    /\ UNCHANGED <<config, hash_seed, file_path, analysis, checker_vars, inferrer_vars,
                   reporter_vars, stderr, driver_vars>>

\* the three clear() calls
InferClear ==
    /\ pc = "Clearing"
    /\ SetEngine(infer_types_clear(Engine))
    /\ pc' = "Seeding"
    /\ UNCHANGED <<config, hash_seed, file_vars, checker_vars, reporter_vars, stderr,
                   driver_vars>>

\* self._collect_basic_types(tree)
InferSeedPass ==
    /\ pc = "Seeding"
    /\ SetEngine(collect_basic_types(tree, Engine))
    /\ pc' = "InferringSignatures"
    /\ UNCHANGED <<config, hash_seed, file_vars, checker_vars, reporter_vars, stderr,
                   driver_vars>>

\* self._infer_function_signatures(tree)
InferSignaturePass ==
    /\ pc = "InferringSignatures"
    /\ SetEngine(infer_function_signatures(tree, Engine, hash_seed))
    /\ pc' = "InferringVariables"
    /\ UNCHANGED <<config, hash_seed, file_vars, checker_vars, reporter_vars, stderr,
                   driver_vars>>

\* self._infer_variable_types(tree); return
InferVariablePass ==
    /\ pc = "InferringVariables"
    /\ SetEngine(infer_variable_types(tree, Engine))
    /\ pc' = "Returned"
    /\ UNCHANGED <<config, hash_seed, file_vars, checker_vars, reporter_vars, stderr,
                   driver_vars>>

InferNext ==
    \/ \E t \in InferTrees : InferEnter(t)
    \/ InferClear
    \/ InferSeedPass
    \/ InferSignaturePass
    \/ InferVariablePass

SpecInfer == InferInit /\ [][InferNext]_vars

-----------------------------------------------------------------------------
(* Vocabulary of the properties.                                           *)

Count(s, Test(_)) == Len(SelectSeq(s, Test))

IsPrefix(s, t) == Len(s) <= Len(t) /\ SubSeq(t, 1, Len(s)) = s

Range(s) == {s[i] : i \in 1..Len(s)}

\* the file at path can be read and parses
Parseable(path) == FileAt(path).readable /\ FileAt(path).syntax_ok

\* a check_file call is between its entry and its return
InCall == pc \notin {"Idle", "Done", "Failed", "Exited"}

\* the stages after _check_function_signatures, after _check_missing_annotations
\* and after _check_type_mismatches have run
SignaturesChecked ==
    pc \in {"CheckingAssignments", "CheckingAnnotations", "CheckingCallSites",
            "Reporting", "Done"}
AnnotationsChecked == pc \in {"CheckingCallSites", "Reporting", "Done"}
CallSitesChecked == pc \in {"Reporting", "Done"}
Inferred == pc \in {"CheckingSignatures"} \/ SignaturesChecked

DefaultConfig == ~config.strict /\ ~config.infer /\ ~config.fix

\* the function definitions and the calls of the current tree
FunctionDefsOf(t) == Range(OfKind(Walk(t), "FunctionDef"))
CallsOf(t) == Range(OfKind(Walk(t), "Call"))

\* the (function, argument) pairs of the tree whose argument has no annotation
UnannotatedArgsOf(t) ==
    UNION {{<<def, def.args[i]>> :
               i \in {j \in 1..Len(def.args) : def.args[j].annotation = NoNode}} :
           def \in FunctionDefsOf(t)}

OfType(issues, type) == SelectSeq(issues, LAMBDA e : e.type = type)

MissingReturnTypeOf(def, path) ==
    Issue("missing_return_type",
          "Missing return type annotation for function '" \o def.name \o "'",
          def.lineno, path)

MissingArgTypeOf(def, arg, path) ==
    Issue("missing_arg_type",
          "Missing type annotation for parameter '" \o arg.arg \o "' in function '"
             \o def.name \o "'",
          def.lineno, path)

MissingParamAnnotationOf(def, arg, path) ==
    Issue("missing_annotation",
          "Missing type annotation for parameter '" \o arg.arg \o "' in function '"
             \o def.name \o "'",
          def.lineno, path)

\* the missing_annotation issues of the unannotated arguments of the tree
ParamAnnotationIssues(t, path) ==
    {MissingParamAnnotationOf(p[1], p[2], path) : p \in UnannotatedArgsOf(t)}

RECURSIVE AnnotateArgs(_)
\* the same tree with every unannotated argument annotated
AnnotateArgs(node) ==
    IF node.kind = "Module"
    THEN [node EXCEPT !.body = Map(node.body, LAMBDA n : AnnotateArgs(n))]
    ELSE IF node.kind = "FunctionDef"
    THEN [node EXCEPT
            !.args = Map(node.args, LAMBDA a :
                        Arg(a.arg, IF a.annotation = NoNode THEN Name("int")
                                   ELSE a.annotation)),
            !.body = Map(node.body, LAMBDA n : AnnotateArgs(n))]
    ELSE node

\* the call c is to a bare name whose inferred signature has an 'args' entry
HasArgsSignature(c) ==
    /\ c.func.kind = "Name"
    /\ DictHas(function_signatures, c.func.id)
    /\ "args" \in function_signatures.vals[c.func.id].keys

\* the inferred argument count a call to a bare name is compared against
InferredArgCount(c) == DictLen(function_signatures.vals[c.func.id].args)

MismatchOf(c, path) ==
    Issue("argument_count_mismatch",
          "Function '" \o c.func.id \o "' expects " \o ToString(InferredArgCount(c))
             \o " arguments, got " \o ToString(Len(c.args)),
          c.lineno, path)

\* the names bound by the assignments and annotated assignments of the tree
TargetNamesOf(t) ==
    {n.targets[1].id : n \in Range(OfKind(Walk(t), "Assign"))}
    \cup {n.target.id : n \in Range(OfKind(Walk(t), "AnnAssign"))}

\* the plain assignments of the tree, in the order the variable pass meets them
AssignsOf(t) == OfKind(Walk(t), "Assign")

\* the i-th assignment is the last one to its target
IsLastAssign(assigns, i) ==
    \A j \in (i + 1)..Len(assigns) : assigns[j].targets[1].id # assigns[i].targets[1].id

IsLiteral(e) == e.kind \in {"Constant", "List", "Dict", "Tuple", "Set"}

\* the type name of a literal, by its kind
LiteralTypeName(lit) ==
    CASE lit.kind = "Constant" /\ lit.pytype = "str"      -> "str"
      [] lit.kind = "Constant" /\ lit.pytype = "bool"     -> "bool"
      [] lit.kind = "Constant" /\ lit.pytype = "int"      -> "int"
      [] lit.kind = "Constant" /\ lit.pytype = "float"    -> "float"
      [] lit.kind = "Constant" /\ lit.pytype = "NoneType" -> "None"
      [] lit.kind \in {"List", "Dict", "Tuple", "Set"}    -> lit.kind

\* the inferred type of argument a of function f, PyNone when there is none
InferredArgType(f, a) ==
    IF DictHas(function_signatures, f) /\ "args" \in function_signatures.vals[f].keys
    THEN DictGetStr(function_signatures.vals[f].args, a)
    ELSE PyNone

\* the function definitions of the tree named name
DefsNamed(t, name) == {def \in FunctionDefsOf(t) : def.name = name}

\* the return statements of a function definition, in ast.walk order
ReturnsOf(def) == OfKind(Walk(def), "Return")

\* the operand of a return statement has no inferable type whatever the
\* engine holds: there is none, or it is a name the tree never binds
NeverInferable(t, v) ==
    \/ v = NoNode
    \/ /\ v.kind = "Name"
       /\ v.id \notin TargetNamesOf(t)

\* every return statement of the definition returns a literal or something
\* that is never inferable
ReturnsLiteralsOnly(t, def) ==
    \A i \in 1..Len(ReturnsOf(def)) :
        IsLiteral(ReturnsOf(def)[i].value) \/ NeverInferable(t, ReturnsOf(def)[i].value)

\* the type names of the literal return expressions of the definition
LiteralReturnTypes(def) ==
    {LiteralTypeName(r.value) :
        r \in {x \in Range(ReturnsOf(def)) : IsLiteral(x.value)}}

\* the texts Union[...] whose members are exactly the type names of types
UnionsOf(types) ==
    LET n == Cardinality(types)
    IN  {"Union[" \o Join(order, ", ") \o "]" :
            order \in {o \in [1..n -> types] : Range(o) = types}}

\* the return type recorded for the function name, PyNone when there is none
RecordedReturns(name) ==
    IF DictHas(function_signatures, name)
    THEN SigReturns(function_signatures.vals[name])
    ELSE PyNone

\* the node is a method call on, or a binary operation with left operand,
\* an argument of the definition
UsesArgument(def, node) ==
    \/ /\ node.kind = "Call"
       /\ node.func.kind = "Attribute"
       /\ node.func.value.kind = "Name"
       /\ node.func.value.id \in ArgNames(def)
    \/ /\ node.kind = "BinOp"
       /\ node.left.kind = "Name"
       /\ node.left.id \in ArgNames(def)

\* neither argument types nor a return type are available for the
\* definition: no return annotation, no use of an argument, and no return
\* statement with an operand that can have a type
NothingToInfer(t, def) ==
    /\ def.returns = NoNode
    /\ \A node \in Range(Walk(def)) : ~UsesArgument(def, node)
    /\ \A r \in Range(ReturnsOf(def)) : NeverInferable(t, r.value)

\* the signature has an entry, and each entry it has is non-empty
NonEmptySignature(sig) ==
    /\ sig.keys # {}
    /\ sig.keys \subseteq {"args", "returns"}
    /\ "args" \in sig.keys => DictLen(sig.args) > 0
    /\ "returns" \in sig.keys => Truthy(sig.returns)

\* the annotated declarations of the tree, in the order the seed pass meets them
AnnAssignsOf(t) == OfKind(Walk(t), "AnnAssign")

\* the names of the tree with an annotated declaration and a plain assignment
SeededAndAssigned(t) ==
    {n.target.id : n \in Range(AnnAssignsOf(t))}
    \cap {n.targets[1].id : n \in Range(AssignsOf(t))}

\* the value assigned has no inferable type whatever the engine holds: a name
\* the tree never binds, or a call of a name the tree never defines
UninferableValue(t, v) ==
    \/ v.kind = "Name" /\ v.id \notin TargetNamesOf(t)
    \/ /\ v.kind = "Call"
       /\ v.func.kind = "Name"
       /\ DefsNamed(t, v.func.id) = {}

\* the positions of the plain assignments to name, and those assigning a literal
AssignsTo(t, name) ==
    {i \in 1..Len(AssignsOf(t)) : AssignsOf(t)[i].targets[1].id = name}
LiteralAssignsTo(t, name) ==
    {i \in AssignsTo(t, name) : IsLiteral(AssignsOf(t)[i].value)}

\* the type the seed pass records for name: that of its last annotated declaration
SeedTypeOf(t, name) ==
    LET decls == {i \in 1..Len(AnnAssignsOf(t)) : AnnAssignsOf(t)[i].target.id = name}
        last  == CHOOSE i \in decls : \A j \in decls : j <= i
    IN  inferrer_get_type_name(AnnAssignsOf(t)[last].annotation)

Max(S) == CHOOSE i \in S : \A j \in S : j <= i

-----------------------------------------------------------------------------
(* Properties.                                                             *)

\* C1: when parsing fails (syntax error or unreadable file) check_file
\* returns exactly 1, runs none of the later stages and leaves the error
\* list and the warning list empty.
C1_ParseFailure ==
    /\ [](pc = "Failed" =>
            /\ ret = 1
            /\ errors = <<>> /\ warnings = <<>>
            /\ tree = NoNode /\ analysis = NoAnalysis)
    /\ [][(pc = "Parsing" /\ ~Parseable(file_path)) =>
            /\ pc' = "Failed"
            /\ ret' = 1
            /\ UNCHANGED <<checker_vars, inferrer_vars, reporter_vars>>]_vars
    /\ [][pc = "Failed" => pc' \in {"Parsing", "Exited"}]_vars

\* an unreadable file was checked after a file that had errors
C1_Witness ==
    /\ pc = "Failed"
    /\ ~FileAt(file_path).readable
    /\ Len(rep_errors) > 0
    /\ ret = 1

\* C2 (as claimed): after every check_file call the value returned equals
\* the number of entries of the error list.
C2_ReturnEqualsErrorCount ==
    pc \in {"Done", "Failed"} => ret = Len(errors)

\* C3 (as claimed): when parsing fails exactly one error for the file is
\* reported to the Reporter, and nothing else.
C3_ParseFailureReported ==
    [][(pc = "Parsing" /\ pc' = "Failed") =>
          /\ Len(rep_errors') = Len(rep_errors) + 1
          /\ rep_errors'[Len(rep_errors')].file = file_path
          /\ rep_warnings' = rep_warnings]_vars

\* C4: in strict mode check_file emits exactly one missing_return_type
\* error for each function definition without a return annotation and none
\* for one with it, whatever the other functions of the file are; with
\* strict off it emits none.
C4_MissingReturnType ==
    /\ SignaturesChecked =>
          /\ \A def \in FunctionDefsOf(tree) :
                Count(errors, LAMBDA e : e = MissingReturnTypeOf(def, file_path))
                   = IF config.strict /\ def.returns = NoNode THEN 1 ELSE 0
          /\ Len(OfType(errors, "missing_return_type"))
                = Cardinality({def \in FunctionDefsOf(tree) :
                                  config.strict /\ def.returns = NoNode})
    /\ ~config.strict => OfType(errors, "missing_return_type") = <<>>

\* a file with an annotated function between two that are not, in strict mode
C4_Witness ==
    /\ pc = "Done"
    /\ config.strict
    /\ file_path = NestedFile.path
    /\ Len(OfType(errors, "missing_return_type")) = 2

\* C5 (as claimed): in strict mode each unannotated argument yields exactly
\* one missing_arg_type warning and adds no error: the error list is that of
\* the same file with the argument annotated.
C5_ArgsAddNoError ==
    (pc = "Done" /\ config.strict) =>
        /\ \A p \in UnannotatedArgsOf(tree) :
              Count(warnings, LAMBDA w : w = MissingArgTypeOf(p[1], p[2], file_path)) = 1
        /\ errors = check_file_errors(config, file_path, AnnotateArgs(tree), hash_seed)

\* C5 (amended): in strict mode each unannotated argument yields exactly one
\* missing_arg_type warning and exactly one missing_annotation error; apart
\* from these missing_annotation errors the error list is that of the same
\* file with the arguments annotated.
C5_ArgsAddOneAnnotationError ==
    (pc = "Done" /\ config.strict) =>
        /\ \A p \in UnannotatedArgsOf(tree) :
              /\ Count(warnings,
                       LAMBDA w : w = MissingArgTypeOf(p[1], p[2], file_path)) = 1
              /\ Count(errors,
                       LAMBDA e : e = MissingParamAnnotationOf(p[1], p[2], file_path)) = 1
        /\ Len(OfType(warnings, "missing_arg_type")) = Cardinality(UnannotatedArgsOf(tree))
        /\ SelectSeq(errors, LAMBDA e : e \notin ParamAnnotationIssues(tree, file_path))
              = check_file_errors(config, file_path, AnnotateArgs(tree), hash_seed)
        /\ Len(errors)
              = Len(check_file_errors(config, file_path, AnnotateArgs(tree), hash_seed))
                + Cardinality(UnannotatedArgsOf(tree))
        /\ ret = Len(errors)

\* def add(a, b: int) -> int in strict mode: one warning, one error
C5_Witness ==
    /\ pc = "Done"
    /\ config.strict
    /\ file_path = AddFile(FALSE, TRUE).path
    /\ Len(warnings) = 1
    /\ ret = 1

\* C6: under the default configuration check_file on a parseable file
\* returns 0 and leaves the error list and the warning list empty.
C6_DefaultConfigClean ==
    DefaultConfig =>
        /\ errors = <<>>
        /\ warnings = <<>>
        /\ pc = "Done" => ret = 0

\* def add(a: int, b: int) -> int checked under the default configuration
C6_Witness ==
    /\ pc = "Done"
    /\ DefaultConfig
    /\ file_path = AddFile(TRUE, TRUE).path
    /\ ret = 0

\* C7: an argument_count_mismatch error is emitted for a call only if
\* inference is enabled, the callee is a bare name and the callee's inferred
\* signature has an 'args' entry; def f(): pass called as f(1, 2) gets none.
C7_MismatchOnlyWithArgsSignature ==
    /\ \A i \in DOMAIN errors :
          errors[i].type = "argument_count_mismatch" =>
             /\ config.infer
             /\ \E c \in CallsOf(tree) :
                   HasArgsSignature(c) /\ errors[i] = MismatchOf(c, file_path)
    /\ file_path = NoSigFile.path => OfType(errors, "argument_count_mismatch") = <<>>

\* size(1, 2) is passed over (its signature has no 'args'), push() is flagged
C7_Witness ==
    /\ pc = "Done"
    /\ config.infer
    /\ file_path = StackFile.path
    /\ DictHas(function_signatures, "size")
    /\ "args" \notin function_signatures.vals["size"].keys
    /\ Len(OfType(errors, "argument_count_mismatch")) = 1

\* C8: with inference enabled, a call to a bare name whose inferred
\* signature has an 'args' entry gets exactly one argument_count_mismatch
\* error if its number of positional arguments differs from the number of
\* entries of the inferred 'args' map, and none if they are equal; no other
\* argument_count_mismatch error is emitted.
C8_ArgumentCount ==
    (CallSitesChecked /\ config.infer) =>
        /\ \A c \in CallsOf(tree) :
              HasArgsSignature(c) =>
                 Count(errors, LAMBDA e : e = MismatchOf(c, file_path))
                    = IF Len(c.args) # InferredArgCount(c) THEN 1 ELSE 0
        /\ Len(OfType(errors, "argument_count_mismatch"))
              = Cardinality({c \in CallsOf(tree) :
                                HasArgsSignature(c) /\ Len(c.args) # InferredArgCount(c)})

\* add(1, 1) passes the two declared parameters of def add(a, b) and is
\* compared against the one inferred argument type
C8_Witness ==
    /\ pc = "Done"
    /\ config.infer
    /\ file_path = CallFile(2).path
    /\ DictLen(function_signatures.vals["add"].args) = 1
    /\ \E i \in DOMAIN errors :
          /\ errors[i].type = "argument_count_mismatch"
          /\ errors[i].message = "Function 'add' expects 1 arguments, got 2"

\* C9: the error and warning lists are empty when a check_file call starts,
\* are only appended to during it, and after it hold exactly the issues of
\* the file just checked (none when it failed to parse).
C9_IssuesOfLastFileOnly ==
    /\ [](/\ \A e \in Range(errors) \cup Range(warnings) : e.file = file_path
          /\ pc \in {"Parsing", "Extracting", "Inferring", "CheckingSignatures", "Failed"}
                => errors = <<>> /\ warnings = <<>>
          /\ pc = "Done" =>
                /\ errors = check_file_errors(config, file_path, tree, hash_seed)
                /\ warnings = check_file_warnings(config, file_path, tree))
    /\ [][InCall => IsPrefix(errors, errors') /\ IsPrefix(warnings, warnings')]_vars

\* a second file without issues checked after a file with errors
C9_Witness ==
    /\ pc = "Done"
    /\ total_files = 2
    /\ errors = <<>>
    /\ warnings = <<>>
    /\ Len(rep_errors) > 0
    /\ Len(rep_warnings) > 0

\* C10: infer_types clears the engine's maps before its passes: after it
\* the maps hold only names of the tree it was given.
C10_InferTypesClears ==
    (config.infer /\ Inferred) =>
        /\ DictKeySet(function_signatures) \subseteq
              {def.name : def \in FunctionDefsOf(tree)}
        /\ \A k \in DictKeySet(function_signatures) :
              \E def \in FunctionDefsOf(tree) :
                 /\ def.name = k
                 /\ DictKeySet(function_signatures.vals[k].args) \subseteq ArgNames(def)
        /\ DictKeySet(variable_types) \subseteq TargetNamesOf(tree)
        /\ type_map = EmptyDict

\* a file that yields no inferred entry, checked after one that yielded some
C10_Witness ==
    /\ pc = "Done"
    /\ config.infer
    /\ file_path = NoSigFile.path
    /\ total_files = 2
    /\ Len(info_messages) > 0
    /\ function_signatures = EmptyDict
    /\ variable_types = EmptyDict

\* C11 (as claimed): with inference enabled, after each check_file call the
\* inferrer's queryable maps hold only what is inferred from the file of that
\* call (nothing when it failed to parse), and every argument_count_mismatch
\* error of the call is computed from the signatures inferred from that file.
C11_NoStateFromEarlierFile ==
    (config.infer /\ pc \in {"Done", "Failed"}) =>
        LET own == IF Parseable(file_path)
                   THEN infer_types(FileAt(file_path).tree, FreshInferrer, hash_seed)
                   ELSE FreshInferrer
        IN  /\ function_signatures = own.fs
            /\ variable_types = own.vt
            /\ OfType(errors, "argument_count_mismatch")
                  = Concat(Map(OfKind(Walk(tree), "Call"),
                               LAMBDA node : check_function_call(config, own.fs,
                                                                 file_path, node)))

\* C12: calling infer_types twice on the same tree yields the same
\* function_signatures, variable_types and type_map both times, whatever the
\* engine held before the first call: the maps a call leaves are those a
\* further call on the same tree leaves, and those a call on that tree leaves
\* from any earlier content.
C12_InferTypesIdempotent ==
    pc = "Returned" =>
        /\ infer_types(tree, Engine, hash_seed) = Engine
        /\ \A prior \in PriorEngines : infer_types(tree, prior, hash_seed) = Engine

\* a call has returned with signatures and variable types, none of them stale
C12_Witness ==
    /\ pc = "Returned"
    /\ tree = CallFile(2).tree
    /\ DictKeySet(function_signatures) = {"add"}
    /\ DictKeySet(variable_types) = {"x", "y"}
    /\ type_map = EmptyDict

\* C13: for every assignment x = <literal> (the last assignment to x),
\* infer_types records variable_types[x] by the kind of the literal: 'str',
\* 'bool' (not 'int') for True/False, 'int', 'float', 'None', and 'List',
\* 'Dict', 'Tuple', 'Set' with no element type.
C13_LiteralAssignments ==
    pc = "Returned" =>
        \A i \in 1..Len(AssignsOf(tree)) :
            LET a == AssignsOf(tree)[i]
            IN  (IsLiteral(a.value) /\ IsLastAssign(AssignsOf(tree), i)) =>
                    /\ DictHas(variable_types, a.targets[1].id)
                    /\ variable_types.vals[a.targets[1].id] = LiteralTypeName(a.value)

\* x = True has been inferred as bool
C13_Witness ==
    /\ pc = "Returned"
    /\ tree = LiteralTree(TrueLit)
    /\ variable_types = DictSet(EmptyDict, "x", "bool")

\* C14: the method-name heuristic maps append to 'List', update to 'Dict',
\* add to 'Set', strip to 'str' and a name not in the table to None; pop,
\* remove and clear, listed under more than one container, resolve to 'Set'
\* (the later table entry).  Checked on the lookup and on the argument type
\* the signature pass records for  def f(a): a.<method>(1).
C14_MethodHeuristic ==
    LET claimed == [m \in {"append", "update", "add", "strip", "pop", "remove", "clear"} |->
                       CASE m = "append" -> "List"
                         [] m = "update" -> "Dict"
                         [] m = "strip"  -> "str"
                         [] OTHER        -> "Set"]
    IN  \A m \in MethodNames :
            (pc = "Returned" /\ tree = MethodTree(m)) =>
                /\ m \in DOMAIN claimed =>
                      /\ infer_type_from_method(m) = claimed[m]
                      /\ InferredArgType("f", "a") = claimed[m]
                /\ m \notin DictKeySet(method_type_map) =>
                      /\ infer_type_from_method(m) = PyNone
                      /\ ~DictHas(function_signatures, "f")

\* def f(a): a.pop(1) has been inferred: a is a 'Set'
C14_Witness ==
    /\ pc = "Returned"
    /\ tree = MethodTree("pop")
    /\ InferredArgType("f", "a") = "Set"

\* C15: the inferred return type of a function (one without a return
\* annotation, the only definition of its name) is derived from the types of
\* its return expressions: with no inferable return expression there is no
\* return-type entry; when all collected types are the same that type is the
\* return type; otherwise it is Union[...] whose members, as a set, are the
\* distinct collected types.  A literal 'return None' contributes 'None'.
C15_ReturnTypeFromReturns ==
    pc = "Returned" =>
        \A def \in FunctionDefsOf(tree) :
            (/\ def.returns = NoNode
             /\ DefsNamed(tree, def.name) = {def}
             /\ ReturnsLiteralsOnly(tree, def)) =>
                LET types == LiteralReturnTypes(def)
                IN  /\ types = {} => RecordedReturns(def.name) = PyNone
                    /\ Cardinality(types) = 1 => RecordedReturns(def.name) \in types
                    /\ Cardinality(types) > 1 => RecordedReturns(def.name) \in UnionsOf(types)

\* def f(a): return 's'; return None  has been inferred as a Union of both
C15_Witness ==
    /\ pc = "Returned"
    /\ tree = FnTree(FALSE, FALSE, <<StrLit("s"), NoneLit>>)
    /\ RecordedReturns("f") = "Union[None, str]"

\* C16: after every infer_types call every entry of function_signatures is
\* non-empty (a non-empty 'args' map and/or a 'returns' type), and a function
\* name for whose definitions neither argument types nor a return type are
\* available is absent from the map.
C16_NoEmptySignature ==
    pc = "Returned" =>
        /\ \A name \in DictKeySet(function_signatures) :
              NonEmptySignature(function_signatures.vals[name])
        /\ \A def \in FunctionDefsOf(tree) :
              (\A other \in DefsNamed(tree, def.name) : NothingToInfer(tree, other))
                  => ~DictHas(function_signatures, def.name)

\* def f(a): return u  (u unbound) has been inferred: no entry for f
C16_Witness ==
    /\ pc = "Returned"
    /\ tree = FnTree(FALSE, FALSE, <<Name("u")>>)
    /\ function_signatures = EmptyDict

\* C17: in a check_file call whose parse succeeds, once the checking stages
\* have run, every entry of the error list and then every entry of the
\* warning list is forwarded to the Reporter exactly once, in list order, with
\* its file, line, message and kind (no other stage forwards anything); with
\* fix on exactly one informational notice is then emitted, with fix off
\* none; the error list, the warning list and the count returned (the number
\* of errors) are not changed by it.
C17_ReportingForwardsAll ==
    /\ [][pc = "Reporting" =>
            /\ report_issues(errors, warnings)
                  = [i \in 1..(Len(errors) + Len(warnings)) |->
                        IF i <= Len(errors)
                        THEN [file |-> file_path, line |-> errors[i].line,
                              message |-> errors[i].message, type |-> errors[i].type,
                              severity |-> "error"]
                        ELSE [file |-> file_path,
                              line |-> warnings[i - Len(errors)].line,
                              message |-> warnings[i - Len(errors)].message,
                              type |-> warnings[i - Len(errors)].type,
                              severity |-> "warning"]]
            /\ rep_errors' = rep_errors \o
                  [i \in 1..Len(errors) |->
                      [file |-> file_path, line |-> errors[i].line,
                       message |-> errors[i].message, type |-> errors[i].type,
                       severity |-> "error"]]
            /\ rep_warnings' = rep_warnings \o
                  [i \in 1..Len(warnings) |->
                      [file |-> file_path, line |-> warnings[i].line,
                       message |-> warnings[i].message, type |-> warnings[i].type,
                       severity |-> "warning"]]
            /\ IsPrefix(info_messages, info_messages')
            /\ Len(info_messages') = Len(info_messages) + (IF config.fix THEN 1 ELSE 0)
            /\ errors' = errors
            /\ warnings' = warnings
            /\ ret' = Len(errors)
            /\ pc' = "Done"]_vars
    /\ [][pc # "Reporting" => UNCHANGED <<rep_errors, rep_warnings>>]_vars

\* a strict, fixing check of def add(a, b: int): return a + b  has reported
\* its errors and its warning and emitted the notice
C17_Witness ==
    /\ pc = "Done"
    /\ config.strict /\ config.fix /\ ~config.infer
    /\ file_path = AddFile(FALSE, FALSE).path
    /\ total_files = 1
    /\ Len(errors) = 3 /\ Len(rep_errors) = 3
    /\ Len(warnings) = 1 /\ Len(rep_warnings) = 1
    /\ Len(info_messages) = 1

\* C18: in a batch run every target file is checked, also after a file that
\* failed to parse or had errors (the next check_file call can start, and
\* main returns only when all targets have been checked); the values
\* check_file returns are summed, and main returns 0 if and only if that sum
\* is 0, otherwise 1.  (A call that fails to parse returns 1 and prints one
\* line to stderr; any other call returns the number of errors it forwards to
\* the Reporter.)
C18_BatchRun ==
    /\ []((pc \in {"Done", "Failed"} /\ total_files < n_targets) =>
             ENABLED (\E path \in Paths : check_file(path)))
    /\ [](pc \in {"Done", "Failed", "Exited"} =>
             total_errors = Len(rep_errors) + Len(stderr))
    /\ [](pc = "Exited" =>
             /\ total_files = n_targets
             /\ exit_code \in {0, 1}
             /\ exit_code = 0 <=> Len(rep_errors) + Len(stderr) = 0)
    /\ [][(InCall /\ pc' \in {"Done", "Failed"}) =>
             /\ total_errors' = total_errors + ret'
             /\ total_files' = total_files + 1]_vars
    /\ [][pc' = "Exited" => total_files = n_targets]_vars

\* a batch of two targets: the first failed to parse, the second was checked
\* and had more than one error; main returned 1
C18_Witness ==
    /\ pc = "Exited"
    /\ n_targets = 2
    /\ total_files = 2
    /\ Len(stderr) = 1
    /\ Len(rep_errors) > 1
    /\ exit_code = 1

\* C19 (as claimed): for a function whose return type is annotated the
\* return type recorded by the seed pass takes precedence: after infer_types
\* the function's signature entry has 'returns' equal to the annotation text,
\* whatever the signature pass infers from the body.
C19_SeedReturnPrecedence ==
    pc = "Returned" =>
        \A def \in FunctionDefsOf(tree) :
            (def.returns # NoNode /\ DefsNamed(tree, def.name) = {def}) =>
                /\ DictHas(function_signatures, def.name)
                /\ RecordedReturns(def.name) = inferrer_get_type_name(def.returns)

\* C20 (as claimed): the variable pass writes unconditionally after the seed
\* pass: for every name with both an annotated declaration and a plain
\* assignment name = expr, variable_types[name] after infer_types is the type
\* inferred from the (last) assignment, never the stale seed type; where the
\* assignment has no inferable type the name has no type.
C20_AssignmentAlwaysWins ==
    pc = "Returned" =>
        \A name \in SeededAndAssigned(tree) :
            LET last == AssignsOf(tree)[Max(AssignsTo(tree, name))]
            IN  /\ IsLiteral(last.value) =>
                      DictGetStr(variable_types, name) = LiteralTypeName(last.value)
                /\ UninferableValue(tree, last.value) =>
                      DictGetStr(variable_types, name) = PyNone

\* C20 (amended): for every name with both an annotated declaration and a
\* plain assignment, variable_types[name] after infer_types is the type
\* inferred from the last assignment whose type can be inferred; when no
\* assignment to the name has an inferable type the seed (annotation) type
\* stays.
C20_InferableAssignmentWins ==
    pc = "Returned" =>
        \A name \in SeededAndAssigned(tree) :
            (\A i \in AssignsTo(tree, name) :
                \/ IsLiteral(AssignsOf(tree)[i].value)
                \/ UninferableValue(tree, AssignsOf(tree)[i].value)) =>
                    IF LiteralAssignsTo(tree, name) = {}
                    THEN DictGetStr(variable_types, name) = SeedTypeOf(tree, name)
                    ELSE DictGetStr(variable_types, name)
                            = LiteralTypeName(
                                 AssignsOf(tree)[Max(LiteralAssignsTo(tree, name))].value)

\* x: int  and  x = 's'  have been inferred: x is a str
C20_Witness ==
    /\ pc = "Returned"
    /\ tree = VarTree(TRUE, StrLit("s"))
    /\ DictGetStr(variable_types, "x") = "str"

\* the assignments that are statements of the module body
TopLevelAssignsOf(t) == OfKind(t.body, "Assign")

\* C21 (as claimed): only the module-level assignments name = expr contribute
\* entries to variable_types in the variable pass: what the pass leaves is
\* what the module-level assignments alone give, and an assignment nested in
\* a function body neither adds nor overwrites an entry.
C21_TopLevelAssignmentsOnly ==
    [][pc = "InferringVariables" =>
          /\ variable_types' = infer_variable_types_loop(TopLevelAssignsOf(tree), Engine).vt
          /\ \A name \in DictKeySet(variable_types') :
                \/ \E a \in Range(TopLevelAssignsOf(tree)) : a.targets[1].id = name
                \/ /\ DictHas(variable_types, name)
                   /\ variable_types'.vals[name] = variable_types.vals[name]]_vars

\* the expression is a call whose callee is a bare name
IsBareCall(e) == e.kind = "Call" /\ e.func.kind = "Name"

\* the names of the tree with an annotated declaration
AnnotatedNamesOf(t) == {n.target.id : n \in Range(AnnAssignsOf(t))}

\* the function definitions of the tree, in the order the signature pass
\* meets them, and the place of a definition in that order
DefSeqOf(t) == OfKind(Walk(t), "FunctionDef")
DefIndex(t, def) == CHOOSE i \in 1..Len(DefSeqOf(t)) : DefSeqOf(t)[i] = def

\* the assignments x = fn() of the tree that are the only binding of x
CallAssignsOf(t) ==
    {i \in 1..Len(AssignsOf(t)) :
        /\ IsBareCall(AssignsOf(t)[i].value)
        /\ AssignsTo(t, AssignsOf(t)[i].targets[1].id) = {i}
        /\ AssignsOf(t)[i].targets[1].id \notin AnnotatedNamesOf(t)}

\* the definitions whose body is the single statement  return fn()  and that
\* are the only definition of their name, unannotated
CallReturningDefsOf(t) ==
    {def \in FunctionDefsOf(t) :
        /\ def.returns = NoNode
        /\ DefsNamed(t, def.name) = {def}
        /\ \A node \in Range(Walk(def)) : ~UsesArgument(def, node)
        /\ Len(ReturnsOf(def)) = 1
        /\ ReturnsOf(def)[1].value # NoNode
        /\ IsBareCall(ReturnsOf(def)[1].value)
        /\ ReturnsOf(def)[1].value.func.id # def.name
        /\ Cardinality(DefsNamed(t, ReturnsOf(def)[1].value.func.id)) <= 1}

\* C22 (as claimed): an assignment x = fn() gets the return type recorded for
\* fn, and none if none is recorded; when fn is defined later in the file
\* than the assignment the reference is not resolved and x gets no type.
C22_ForwardReferenceUnresolved ==
    pc = "Returned" =>
        \A i \in CallAssignsOf(tree) :
            LET a  == AssignsOf(tree)[i]
                fn == a.value.func.id
            IN  IF /\ DefsNamed(tree, fn) # {}
                   /\ \A def \in DefsNamed(tree, fn) : def.lineno > a.lineno
                THEN DictGetStr(variable_types, a.targets[1].id) = PyNone
                ELSE DictGetStr(variable_types, a.targets[1].id) = RecordedReturns(fn)

\* C22 (amended): a call to a bare-name function gets the return type
\* recorded for the function when the call is examined, none if none is
\* recorded.  The variable pass runs after the whole signature pass, so an
\* assignment x = fn() gets the return type inferred for fn wherever fn is
\* defined in the file.  In the signature pass a function returning fn()
\* gets fn's inferred return type when fn comes earlier in the walk; when fn
\* comes later it gets only the annotated return type of fn (the seed), and
\* none if fn has no return annotation.
C22_CallTypeByPassOrder ==
    pc = "Returned" =>
        /\ \A i \in CallAssignsOf(tree) :
              LET a == AssignsOf(tree)[i]
              IN  DictGetStr(variable_types, a.targets[1].id)
                     = RecordedReturns(a.value.func.id)
        /\ \A def \in CallReturningDefsOf(tree) :
              LET fn      == ReturnsOf(def)[1].value.func.id
                  callees == DefsNamed(tree, fn)
              IN  RecordedReturns(def.name) =
                     IF callees = {} THEN PyNone
                     ELSE LET callee == CHOOSE c \in callees : TRUE
                          IN  IF DefIndex(tree, callee) < DefIndex(tree, def)
                              THEN RecordedReturns(fn)
                              ELSE inferrer_get_type_name(callee.returns)

\* x = h() placed before def h(): return 1 has been inferred: x is an int
C22_Witness ==
    /\ pc = "Returned"
    /\ tree = ForwardTree(TRUE, FALSE, FALSE)
    /\ RecordedReturns("h") = "int"
    /\ DictGetStr(variable_types, "x") = "int"

\* the type of an operand that is a literal, none for a name the tree never binds
OperandType(t, e) == IF IsLiteral(e) THEN LiteralTypeName(e) ELSE PyNone

\* the assignments x = <left> <op> <right> of the tree that are the only
\* binding of x, with operands whose type does not depend on the engine
BinOpAssignsOf(t) ==
    {i \in 1..Len(AssignsOf(t)) :
        LET a == AssignsOf(t)[i]
        IN  /\ a.value.kind = "BinOp"
            /\ AssignsTo(t, a.targets[1].id) = {i}
            /\ a.targets[1].id \notin AnnotatedNamesOf(t)
            /\ \A e \in {a.value.left, a.value.right} :
                  IsLiteral(e) \/ NeverInferable(t, e)}

\* the str / numeric heuristic: 'str' for two str, 'float' or 'int' for two
\* numeric types, otherwise the left type
StrNumericRule(left_type, right_type) ==
    IF left_type = "str" /\ right_type = "str" THEN "str"
    ELSE IF left_type \in {"int", "float"} /\ right_type \in {"int", "float"}
    THEN (IF left_type = "float" \/ right_type = "float" THEN "float" ELSE "int")
    ELSE left_type

\* C23 (as claimed): for every binary operation, whatever its operator, the
\* inferred type is 'str' when both operand types are 'str'; 'float' if
\* either is 'float' and 'int' otherwise when both are numeric; in every other
\* case the left operand's inferred type (which may be unknown).
C23_BinOpAnyOperator ==
    pc = "Returned" =>
        \A i \in BinOpAssignsOf(tree) :
            LET a == AssignsOf(tree)[i]
            IN  DictGetStr(variable_types, a.targets[1].id)
                   = StrNumericRule(OperandType(tree, a.value.left),
                                    OperandType(tree, a.value.right))

\* C23 (amended): for a binary operation whose operator is +, -, * or / the
\* inferred type is 'str' when both operand types are 'str'; 'float' if
\* either is 'float' and 'int' otherwise when both are numeric; in every other
\* case, and for every other operator whatever the operand types, it is the
\* left operand's inferred type (which may be unknown).
C23_BinOpArithmeticOperators ==
    pc = "Returned" =>
        \A i \in BinOpAssignsOf(tree) :
            LET a          == AssignsOf(tree)[i]
                left_type  == OperandType(tree, a.value.left)
                right_type == OperandType(tree, a.value.right)
            IN  DictGetStr(variable_types, a.targets[1].id)
                   = IF a.value.op \in {"Add", "Sub", "Mult", "Div"}
                     THEN StrNumericRule(left_type, right_type)
                     ELSE left_type

\* x = 1 % 3.14 has been inferred: x is an int, the left operand's type
C23_Witness ==
    /\ pc = "Returned"
    /\ tree = BinOpTree(IntLit("1"), "Mod", FloatLit)
    /\ DictGetStr(variable_types, "x") = "int"

RECURSIVE IsTypeShape(_)
\* the type expression is built from the shapes with a reconstruction rule:
\* nothing, identifiers, attributes, subscripts and literal constants
IsTypeShape(e) ==
    CASE e.kind \in {"NoNode", "Name", "Constant"} -> TRUE
      [] e.kind = "Attribute" -> IsTypeShape(e.value)
      [] e.kind = "Subscript" -> IsTypeShape(e.value) /\ IsTypeShape(e.slice)
      [] OTHER -> FALSE

RECURSIVE TypeText(_)
\* the text of a type expression of these shapes
TypeText(e) ==
    CASE e.kind = "NoNode"    -> PyNone
      [] e.kind = "Name"      -> e.id
      [] e.kind = "Constant"  -> e.repr
      [] e.kind = "Attribute" -> TypeText(e.value) \o "." \o e.attr
      [] e.kind = "Subscript" -> TypeText(e.value) \o "[" \o TypeText(e.slice) \o "]"

\* the type expressions of the tree: the annotations of its declarations,
\* the return and argument annotations of its function definitions (NoNode
\* where there is none)
TypeExprsOf(t) ==
    {n.annotation : n \in Range(AnnAssignsOf(t))}
    \cup {def.returns : def \in FunctionDefsOf(t)}
    \cup UNION {{def.args[j].annotation : j \in 1..Len(def.args)} :
                   def \in FunctionDefsOf(t)}

\* C24: the type-name reconstruction of the extractor and that of the
\* inference engine give the same output for every type expression: None for
\* no expression, an identifier itself, an attribute '<base>.<attr>' and a
\* subscript '<base>[<slice>]' recursively, a literal constant its str.
\* Checked on the functions, on the signatures the extractor reports for the
\* tree and on the entries the engine's seed pass records from it.
C24_TypeNameRulesAgree ==
    pc = "Returned" =>
        /\ \A e \in TypeExprsOf(tree) :
              /\ analyzer_get_type_name(e) = inferrer_get_type_name(e)
              /\ IsTypeShape(e) => analyzer_get_type_name(e) = TypeText(e)
        /\ \A i \in 1..Len(DefSeqOf(tree)) :
              LET def == DefSeqOf(tree)[i]
                  sig == get_function_signatures(tree)[i]
              IN  /\ sig.returns = inferrer_get_type_name(def.returns)
                  /\ \A j \in 1..Len(def.args) :
                        sig.args[j].annotation
                           = inferrer_get_type_name(def.args[j].annotation)
        /\ \A n \in Range(AnnAssignsOf(tree)) :
              (n.target.id \notin {a.targets[1].id : a \in Range(AssignsOf(tree))}
               /\ SeedTypeOf(tree, n.target.id) = inferrer_get_type_name(n.annotation))
                  => DictGetStr(variable_types, n.target.id)
                        = analyzer_get_type_name(n.annotation)

\* def f(a: typing.List[int]) -> typing.List[int] and v: typing.List[int]
\* have been seeded with the text the extractor gives
C24_Witness ==
    /\ pc = "Returned"
    /\ tree = AnnTree(Subscript(Attribute(Name("typing"), "List"), Name("int")))
    /\ RecordedReturns("f") = "typing.List[int]"
    /\ DictGetStr(variable_types, "v") = "typing.List[int]"
    /\ get_function_signatures(tree)[1].returns = "typing.List[int]"

\* C25 (as claimed): for every assignment of a literal constant or of a
\* list/dict/tuple/set literal, the value type the extractor's
\* get_variable_assignments reports equals the type the inference engine
\* gives the same expression (str, bool, int, float, None, List, Dict, Tuple,
\* Set), x = True being 'bool' for both.
C25_ExtractorAgreesOnLiterals ==
    pc = "Returned" =>
        \A i \in 1..Len(AssignsOf(tree)) :
            LET a == AssignsOf(tree)[i]
            IN  IsLiteral(a.value) =>
                   /\ get_variable_assignments(tree)[i].name = a.targets[1].id
                   /\ get_variable_assignments(tree)[i].value_type
                         = infer_expression_type(a.value, Engine)
                   /\ IsLastAssign(AssignsOf(tree), i) =>
                         get_variable_assignments(tree)[i].value_type
                            = DictGetStr(variable_types, a.targets[1].id)

\* the operators with a type in the operator heuristic, and that type
IntOperators ==
    {"Add", "Sub", "Mult", "Div", "Mod", "Pow",
     "LShift", "RShift", "BitOr", "BitXor", "BitAnd"}
OperatorType(op) == IF op = "MatMult" THEN "Any" ELSE "int"

\* the node is an occurrence that gives parameter p a type: a call p.m(...)
\* with m in the method table, or a binary operation with left operand p and
\* an operator of the heuristic
GivesType(node, p) ==
    \/ /\ node.kind = "Call"
       /\ node.func.kind = "Attribute"
       /\ node.func.value = Name(p)
       /\ node.func.attr \in DictKeySet(method_type_map)
    \/ /\ node.kind = "BinOp"
       /\ node.left = Name(p)
       /\ node.op \in IntOperators \cup {"MatMult"}

\* the type such an occurrence gives
TypeGiven(node) ==
    IF node.kind = "Call" THEN method_type_map.vals[node.func.attr]
    ELSE OperatorType(node.op)

\* C27: for each parameter of a function (the only definition of its name),
\* the argument type recorded is the one given by the last matching
\* occurrence in the ast.walk traversal of the function node: a method call
\* param.m(...) with m in the method table, or a binary operation whose left
\* operand is the parameter, where + - * / % ** and the shift and bitwise
\* operators give 'int' and matrix multiplication gives 'Any'; a later match
\* overwrites an earlier one and a parameter without a match has no entry.
C27_LastMatchWins ==
    pc = "Returned" =>
        \A def \in FunctionDefsOf(tree) :
            DefsNamed(tree, def.name) = {def} =>
                \A p \in ArgNames(def) :
                    LET nodes   == Walk(def)
                        matches == {i \in 1..Len(nodes) : GivesType(nodes[i], p)}
                    IN  InferredArgType(def.name, p) =
                           IF matches = {} THEN PyNone
                           ELSE TypeGiven(nodes[Max(matches)])

\* def f(a, b): g(a ** 2); a.strip()  has been inferred: the walk meets the
\* call a.strip() before the operation a ** 2, one level deeper, so a is 'int'
C27_Witness ==
    /\ pc = "Returned"
    /\ tree = ArgUseTree(<<Expr(Call(Name("g"),
                                     <<BinOp(Name("a"), "Pow", IntLit("2"))>>, <<>>, 2)),
                           Expr(Call(Attribute(Name("a"), "strip"), <<>>, <<>>, 2))>>)
    /\ InferredArgType("f", "a") = "int"
    /\ InferredArgType("f", "b") = PyNone

\* C26: the CheckingAnnotations stage emits exactly one missing_annotation
\* issue per entry of the extractor's missing-annotation site list, in list
\* order, with the site's line; each is an error when strict mode is on and a
\* warning otherwise, whatever else the configuration, the file or the site
\* are; the stage changes nothing else of the two lists.
C26_AnnotationStage ==
    [][pc = "CheckingAnnotations" =>
          LET sites  == analysis.missing_annotations
              issues == [i \in 1..Len(sites) |->
                            [type |-> "missing_annotation",
                             message |-> "Missing type annotation for " \o sites[i].item,
                             line |-> sites[i].line,
                             file |-> file_path]]
          IN  /\ config.strict => (errors' = errors \o issues /\ warnings' = warnings)
              /\ ~config.strict => (warnings' = warnings \o issues /\ errors' = errors)
              /\ pc' = "CheckingCallSites"]_vars

\* the stage has run in strict mode on nested.py: four sites (outer and its
\* parameter, the parameter of inner, later), four errors on three lines
C26_Witness ==
    /\ pc = "CheckingCallSites"
    /\ config.strict
    /\ file_path = NestedFile.path
    /\ Len(analysis.missing_annotations) = 4
    /\ Len(OfType(errors, "missing_annotation")) = 4
    /\ {e.line : e \in Range(OfType(errors, "missing_annotation"))} = {1, 2, 5}

\* C28: whenever strict mode is off the warning list is empty after (and
\* during) every check_file call, for any file and any setting of infer and
\* fix: the site list is populated only in strict mode, so the warning branch
\* of the CheckingAnnotations stage appends nothing, and no missing_annotation
\* issue ever has severity warning, in the checker's list or the Reporter's.
C28_NoWarningUnlessStrict ==
    /\ ~config.strict =>
          /\ warnings = <<>>
          /\ rep_warnings = <<>>
          /\ analysis.missing_annotations = <<>>
    /\ \A w \in Range(warnings) \cup Range(rep_warnings) : w.type # "missing_annotation"

\* a non-strict check with inference and fix on of a file whose function has
\* no annotation at all: an error, no warning
C28_Witness ==
    /\ pc = "Done"
    /\ ~config.strict /\ config.infer /\ config.fix
    /\ file_path = CallFile(0).path
    /\ Len(errors) = 1
    /\ warnings = <<>>
    /\ rep_warnings = <<>>

\* the unannotated positional parameters of a definition
UnannotatedArgs(def) == SelectSeq(def.args, LAMBDA a : a.annotation = NoNode)

\* the number of function definitions of the tree without a return
\* annotation, and the number of unannotated positional parameters
MissingReturnCount(t) == Len(SelectSeq(DefSeqOf(t), LAMBDA def : def.returns = NoNode))
MissingArgCount(t) == Len(Concat(Map(DefSeqOf(t), UnannotatedArgs)))

\* C29: in strict mode with inference off, for a parseable file with R
\* function definitions lacking a return annotation and A unannotated
\* positional parameters, check_file returns 2*R + A: R missing_return_type
\* errors and R + A missing_annotation errors; the warning list holds exactly
\* A warnings, all missing_arg_type.  Every missing-annotation site is
\* reported twice: a function's by a missing_return_type error, a
\* parameter's by a missing_arg_type warning, each also by a
\* missing_annotation error.
C29_StrictCounts ==
    (pc = "Done" /\ config.strict /\ ~config.infer) =>
        LET R == MissingReturnCount(tree)
            A == MissingArgCount(tree)
        IN  /\ ret = 2 * R + A
            /\ Len(errors) = 2 * R + A
            /\ Len(OfType(errors, "missing_return_type")) = R
            /\ Len(OfType(errors, "missing_annotation")) = R + A
            /\ Len(warnings) = A
            /\ Len(OfType(warnings, "missing_arg_type")) = A
            /\ \A def \in FunctionDefsOf(tree) :
                  /\ def.returns = NoNode =>
                        /\ MissingReturnTypeOf(def, file_path) \in Range(errors)
                        /\ Issue("missing_annotation",
                                 "Missing type annotation for function '" \o def.name \o "'",
                                 def.lineno, file_path) \in Range(errors)
                  /\ \A a \in Range(UnannotatedArgs(def)) :
                        /\ MissingArgTypeOf(def, a, file_path) \in Range(warnings)
                        /\ MissingParamAnnotationOf(def, a, file_path) \in Range(errors)

\* stack.py checked in strict mode without inference: one function without a
\* return annotation, three unannotated parameters
C29_Witness ==
    /\ pc = "Done"
    /\ config.strict /\ ~config.infer
    /\ file_path = StackFile.path
    /\ MissingReturnCount(tree) = 1
    /\ MissingArgCount(tree) = 3
    /\ ret = 5
    /\ Len(warnings) = 3

\* C30 (as claimed): the Reporter's error and warning lists are never reset
\* by check_file and only grow; after any sequence of check_file calls the
\* number of errors the Reporter holds equals the sum of the values the calls
\* returned (the total the batch driver prints), and its warnings are the
\* concatenation of the per-file warning lists.
C30_ReporterHoldsTheTotal ==
    /\ [][IsPrefix(rep_errors, rep_errors') /\ IsPrefix(rep_warnings, rep_warnings')]_vars
    /\ [][(InCall /\ pc' \in {"Done", "Failed"}) =>
             rep_warnings' = rep_warnings \o
                [i \in 1..Len(warnings') |->
                    [file |-> warnings'[i].file, line |-> warnings'[i].line,
                     message |-> warnings'[i].message, type |-> warnings'[i].type,
                     severity |-> "warning"]]]_vars
    /\ [](pc \in {"Idle", "Done", "Failed", "Exited"} => Len(rep_errors) = total_errors)

====
